---------------------------- MODULE Spec2Model ----------------------------
(***************************************************************************)
(* A model of the Jack VM translator: the command parser (parser.c), the   *)
(* code generator (code_writer.c), the translation driver (vmtranslator.c) *)
(* and the target machine that runs the emitted assembly.                  *)
(*                                                                         *)
(* C strings are sequences of one-character strings; the text the          *)
(* generator emits is kept character by character, newlines included, and  *)
(* the target machine decodes that text again before it runs it.           *)
(***************************************************************************)
EXTENDS Integers, Sequences, FiniteSets, TLC

VARIABLES
  output,            \* CodeWriter.output_file: the text written so far
  input_file,        \* CodeWriter.input_file: the unit identifier
  boolean_op_count,  \* CodeWriter.boolean_op_count
  status,            \* the status the last generator call returned
  ncalls,            \* generator calls made so far
  units,             \* source units still to be translated into this output
  emitted,           \* log of the calls made: unit, call, status, emitted text
  prog,              \* VM commands still to be translated before the run
  phase,             \* "gen", "run" or "halt"
  rom,               \* the loaded program: the lines of output
  pc,                \* index in rom of the next line to execute
  regA,              \* address register
  regD,              \* data register
  ram,               \* data memory: written cells (every other cell reads 0)
  ram0,              \* data memory when the run started
  unit,              \* the file name of the unit being translated, or <<>>
  src_parser,        \* the Parser of the open source file
  advanced,          \* what the last parser_advance returned ("none" before)
  diagnostic,        \* the line number of its syntax error message, or 0
  line_in,           \* the command line it took from the file, or <<>>
  arg1_out,          \* what parser_arg1 gave the driver for that command
  arg1_read,         \* whether the driver has read it
  strcpy_overlap,    \* how the build's strcpy copies between overlapping objects
  site,              \* the call under way: its counts, the callee, the caller's pointers
  env,               \* what main is given: argc, the path's kind, the directory's entries
  fs,                \* the source files: unit name -> text, or Unreadable
  exit_code,         \* what main returned, or -1 while it runs
  reports,           \* the error messages printed so far
  sink,              \* whether the output file takes what is written to it
  context            \* the generator's current function name and call-site counter

writerVars == <<output, input_file, boolean_op_count, status>>
genVars == <<ncalls, units, unit, emitted>>
parserVars == <<src_parser, advanced, diagnostic, line_in, arg1_out, arg1_read,
                strcpy_overlap>>

vars == <<output, input_file, boolean_op_count, status, ncalls, units, unit,
          emitted, prog, phase, rom, pc, regA, regD, ram, ram0,
          src_parser, advanced, diagnostic, line_in, arg1_out, arg1_read, strcpy_overlap, site,
          env, fs, exit_code, reports, sink, context>>
runVars == <<env, fs, exit_code, reports, sink, context>>
cpuVars == <<prog, phase, rom, pc, regA, regD, ram, ram0>>

(***************************************************************************)
(* Text                                                                    *)
(***************************************************************************)
NL == "\n"

DigitChars == <<"0","1","2","3","4","5","6","7","8","9">>

IsDigit(c) == \E d \in 1..10 : DigitChars[d] = c

DigitValue(c) == (CHOOSE d \in 1..10 : DigitChars[d] = c) - 1

\* printf's %d
RECURSIVE FormatD(_)
FormatD(n) ==
  IF n < 0 THEN <<"-">> \o FormatD(-n)
  ELSE IF n < 10 THEN <<DigitChars[n + 1]>>
  ELSE FormatD(n \div 10) \o <<DigitChars[(n % 10) + 1]>>

\* the value of a sequence of decimal digits
RECURSIVE ParseDigits(_)
ParseDigits(s) ==
  IF s = <<>> THEN 0
  ELSE 10 * ParseDigits(SubSeq(s, 1, Len(s) - 1)) + DigitValue(s[Len(s)])

AllDigits(s) == s # <<>> /\ \A i \in 1..Len(s) : IsDigit(s[i])

\* s split at every newline (an empty last line is dropped)
RECURSIVE SplitLines(_)
SplitLines(s) ==
  IF s = <<>> THEN <<>>
  ELSE IF \E i \in 1..Len(s) : s[i] = NL
       THEN LET i == CHOOSE k \in 1..Len(s) :
                       s[k] = NL /\ \A j \in 1..(k - 1) : s[j] # NL
            IN <<SubSeq(s, 1, i - 1)>> \o SplitLines(SubSeq(s, i + 1, Len(s)))
       ELSE <<s>>

StartsWith(s, p) == Len(s) >= Len(p) /\ SubSeq(s, 1, Len(p)) = p

(***************************************************************************)
(* code_writer.c: tables and status codes                                  *)
(***************************************************************************)
CODE_WRITER_INVALID_ARITHMETIC_CMD == "CODE_WRITER_INVALID_ARITHMETIC_CMD"
CODE_WRITER_INVALID_PUSH_POP_CMD == "CODE_WRITER_INVALID_PUSH_POP_CMD"
CODE_WRITER_INVALID_PUSH_POP_SEGMENT == "CODE_WRITER_INVALID_PUSH_POP_SEGMENT"
CODE_WRITER_INVALID_PUSH_POP_INDEX == "CODE_WRITER_INVALID_PUSH_POP_INDEX"
CODE_WRITER_FAIL_WRITE == "CODE_WRITER_FAIL_WRITE"
CODE_WRITER_SUCC == "CODE_WRITER_SUCC"

C_ARITHMETIC == "C_ARITHMETIC"
C_PUSH == "C_PUSH"
C_POP == "C_POP"
C_LABEL == "C_LABEL"
C_GOTO == "C_GOTO"
C_IF == "C_IF"
C_FUNCTION == "C_FUNCTION"
C_RETURN == "C_RETURN"
C_CALL == "C_CALL"

ARITHMETIC_LOGICAL_CMD_TABLE_SIZE == 9

arithmetic_logical_cmd_table ==
  << [type |-> "ARITHMETIC_LOGICAL_ADD", command |-> <<"a","d","d">>],
     [type |-> "ARITHMETIC_LOGICAL_SUB", command |-> <<"s","u","b">>],
     [type |-> "ARITHMETIC_LOGICAL_NEG", command |-> <<"n","e","g">>],
     [type |-> "ARITHMETIC_LOGICAL_EQ",  command |-> <<"e","q">>],
     [type |-> "ARITHMETIC_LOGICAL_GT",  command |-> <<"g","t">>],
     [type |-> "ARITHMETIC_LOGICAL_LT",  command |-> <<"l","t">>],
     [type |-> "ARITHMETIC_LOGICAL_AND", command |-> <<"a","n","d">>],
     [type |-> "ARITHMETIC_LOGICAL_OR",  command |-> <<"o","r">>],
     [type |-> "ARITHMETIC_LOGICAL_NOT", command |-> <<"n","o","t">>] >>

MEMORY_SEGMENT_TABLE_SIZE == 8

memory_segment_table ==
  << [type |-> "MEMORY_SEGMENT_ARGUMENT", segment |-> <<"a","r","g","u","m","e","n","t">>],
     [type |-> "MEMORY_SEGMENT_LOCAL",    segment |-> <<"l","o","c","a","l">>],
     [type |-> "MEMORY_SEGMENT_STATIC",   segment |-> <<"s","t","a","t","i","c">>],
     [type |-> "MEMORY_SEGMENT_CONSTANT", segment |-> <<"c","o","n","s","t","a","n","t">>],
     [type |-> "MEMORY_SEGMENT_THIS",     segment |-> <<"t","h","i","s">>],
     [type |-> "MEMORY_SEGMENT_THAT",     segment |-> <<"t","h","a","t">>],
     [type |-> "MEMORY_SEGMENT_POINTER",  segment |-> <<"p","o","i","n","t","e","r">>],
     [type |-> "MEMORY_SEGMENT_TEMP",     segment |-> <<"t","e","m","p">>] >>

ASSEMBLY_INSTRUCTIONS_SIZE == 1024

(***************************************************************************)
(* code_writer.c: the helpers that format one piece of assembly into the   *)
(* buffer.  Each takes the room left in the buffer and returns what it     *)
(* wrote, or NULL.                                                         *)
(***************************************************************************)
NullPtr == [ok |-> FALSE, text |-> <<>>]

Written(t) == [ok |-> TRUE, text |-> t]

\* memcpy of a fixed instruction, refused when it does not fit
CopyFixed(size, t) == IF size < Len(t) THEN NullPtr ELSE Written(t)

\* snprintf of an instruction, refused when its length exceeds the room
Snprintf(size, t) == IF Len(t) > size THEN NullPtr ELSE Written(t)

\* the top element addressed without moving the stack pointer
stack_get_top_element_assembly_no_decrement(size) ==
  CopyFixed(size, <<"@","S","P","\n","A","=","M","-","1">>)

stack_get_top_element_assembly(size) ==
  CopyFixed(size, <<"@","S","P","\n","M","=","M","-","1","\n","A","=","M">>)

\* a push that does not move the stack pointer
stack_push_element_assembly_no_increment(size) ==
  CopyFixed(size, <<"@","S","P","\n","A","=","M","\n","M","=","D">>)

stack_push_element_assembly(size) ==
  CopyFixed(size, <<"@","S","P","\n","A","=","M","\n","M","=","D","\n","@","S","P","\n","M","=","M","+","1">>)

store_in_register(size) == CopyFixed(size, <<"D","=","M">>)

\* one scratch cell for everything
store_in_temp_register_one_cell(size, register_idx) ==
  IF register_idx < 13 \/ register_idx > 15 THEN NullPtr
  ELSE Snprintf(size, <<"@","R","1","3","\n","M","=","D">>)

store_in_temp_register(size, register_idx) ==
  IF register_idx < 13 \/ register_idx > 15 THEN NullPtr
  ELSE Snprintf(size, <<"@","R">> \o FormatD(register_idx) \o <<"\n","M","=","D">>)

get_in_temp_register(size, register_idx, is_data_address) ==
  IF register_idx < 13 \/ register_idx > 15 THEN NullPtr
  ELSE Snprintf(size, <<"@","R">> \o FormatD(register_idx) \o <<NL>>
                      \o (IF is_data_address THEN <<"A">> ELSE <<"D">>) \o <<"=","M">>)

store_in_memory_register(size) ==
  IF Len(<<"M","=","D">>) > size THEN NullPtr ELSE Written(<<"M","=","D">>)

write_unary_operation(size, operation) ==
  IF operation # "ARITHMETIC_LOGICAL_NEG" /\ operation # "ARITHMETIC_LOGICAL_NOT"
  THEN NullPtr
  ELSE Snprintf(size, <<"D","=">> \o (IF operation = "ARITHMETIC_LOGICAL_NEG"
                                THEN <<"-">> ELSE <<"!">>) \o <<"D">>)

write_arithmetic_bitwise_operation(size, operation) ==
  CASE operation = "ARITHMETIC_LOGICAL_ADD" -> Snprintf(size, <<"D","=","D","+","M">>)
    [] operation = "ARITHMETIC_LOGICAL_SUB" -> Snprintf(size, <<"D","=","D","-","M">>)
    [] operation = "ARITHMETIC_LOGICAL_AND" -> Snprintf(size, <<"D","=","D","&","M">>)
    [] operation = "ARITHMETIC_LOGICAL_OR"  -> Snprintf(size, <<"D","=","D","|","M">>)
    [] OTHER -> NullPtr

\* a comparison whose true value is 1
BooleanTextOne(jump, boolean_count) ==
  <<"D","=","D","-","M","\n","@","B","O","O","L","E","A","N","_","T","R","U","E",".">> \o FormatD(boolean_count) \o <<"\n","D",";">> \o jump
  \o <<"\n","D","=","0","\n","@","B","O","O","L","E","A","N","_","C","O","N","T","I","N","U","E",".">> \o FormatD(boolean_count)
  \o <<"\n","0",";","J","M","P","\n","(","B","O","O","L","E","A","N","_","T","R","U","E",".">> \o FormatD(boolean_count)
  \o <<")","\n","D","=","1","\n","(","B","O","O","L","E","A","N","_","C","O","N","T","I","N","U","E",".">> \o FormatD(boolean_count) \o <<")">>

BooleanText(jump, boolean_count) ==
  <<"D","=","D","-","M","\n","@","B","O","O","L","E","A","N","_","T","R","U","E",".">> \o FormatD(boolean_count) \o <<"\n","D",";">> \o jump
  \o <<"\n","D","=","0","\n","@","B","O","O","L","E","A","N","_","C","O","N","T","I","N","U","E",".">> \o FormatD(boolean_count)
  \o <<"\n","0",";","J","M","P","\n","(","B","O","O","L","E","A","N","_","T","R","U","E",".">> \o FormatD(boolean_count)
  \o <<")","\n","D","=","-","1","\n","(","B","O","O","L","E","A","N","_","C","O","N","T","I","N","U","E",".">> \o FormatD(boolean_count) \o <<")">>

write_boolean_operation_fixed_label(size, operation, boolean_count) ==
  CASE operation = "ARITHMETIC_LOGICAL_EQ" -> Snprintf(size, BooleanText(<<"J","E","Q">>, 0))
    [] operation = "ARITHMETIC_LOGICAL_GT" -> Snprintf(size, BooleanText(<<"J","G","T">>, 0))
    [] operation = "ARITHMETIC_LOGICAL_LT" -> Snprintf(size, BooleanText(<<"J","L","T">>, 0))
    [] OTHER -> NullPtr

write_boolean_operation(size, operation, boolean_count) ==
  CASE operation = "ARITHMETIC_LOGICAL_EQ" ->
         Snprintf(size, BooleanText(<<"J","E","Q">>, boolean_count))
    [] operation = "ARITHMETIC_LOGICAL_GT" ->
         Snprintf(size, BooleanText(<<"J","G","T">>, boolean_count))
    [] operation = "ARITHMETIC_LOGICAL_LT" ->
         Snprintf(size, BooleanText(<<"J","L","T">>, boolean_count))
    [] OTHER -> NullPtr

write_constant_index(size, constant) ==
  IF constant < 0 THEN NullPtr
  ELSE Snprintf(size, <<"@">> \o FormatD(constant) \o <<"\n","D","=","A">>)

\* a segment access that adds the index to the address of the pointer cell
SymbolSegmentTextFixedBase(name, read_address) ==
  <<"@">> \o name \o <<"\n","A","=","D","+","A","\n","D","=">> \o (IF ~read_address THEN <<"M">> ELSE <<"A">>)

SymbolSegmentText(name, read_address) ==
  <<"@">> \o name \o <<"\n","A","=","D","+","M","\n","D","=">> \o (IF ~read_address THEN <<"M">> ELSE <<"A">>)

write_symbol_segment(size, type, read_address) ==
  CASE type = "MEMORY_SEGMENT_ARGUMENT" ->
         Snprintf(size, SymbolSegmentText(<<"A","R","G">>, read_address))
    [] type = "MEMORY_SEGMENT_LOCAL" ->
         Snprintf(size, SymbolSegmentText(<<"L","C","L">>, read_address))
    [] type = "MEMORY_SEGMENT_THIS" ->
         Snprintf(size, SymbolSegmentText(<<"T","H","I","S">>, read_address))
    [] type = "MEMORY_SEGMENT_THAT" ->
         Snprintf(size, SymbolSegmentText(<<"T","H","A","T">>, read_address))
    [] OTHER -> NullPtr

VirtualSegmentText(register, read_address) ==
  <<"@","R">> \o FormatD(register) \o <<"\n","D","=">> \o (IF ~read_address THEN <<"M">> ELSE <<"A">>)

\* a helper that takes every index that is not negative
write_virtual_segment_any_index(size, type, index, read_address) ==
  IF index < 0 THEN NullPtr
  ELSE CASE type = "MEMORY_SEGMENT_POINTER" ->
              Snprintf(size, VirtualSegmentText(3 + index, read_address))
         [] type = "MEMORY_SEGMENT_TEMP" ->
              Snprintf(size, VirtualSegmentText(5 + index, read_address))
         [] OTHER -> NullPtr

\* a temp segment that starts one cell later
write_virtual_segment_temp_from_6(size, type, index, read_address) ==
  IF index < 0 THEN NullPtr
  ELSE CASE type = "MEMORY_SEGMENT_POINTER" ->
              IF index >= 2 THEN NullPtr
              ELSE Snprintf(size, VirtualSegmentText(3 + index, read_address))
         [] type = "MEMORY_SEGMENT_TEMP" ->
              IF index >= 8 THEN NullPtr
              ELSE Snprintf(size, VirtualSegmentText(6 + index, read_address))
         [] OTHER -> NullPtr

write_virtual_segment(size, type, index, read_address) ==
  IF index < 0 THEN NullPtr
  ELSE CASE type = "MEMORY_SEGMENT_POINTER" ->
              IF index >= 2 THEN NullPtr
              ELSE Snprintf(size, VirtualSegmentText(3 + index, read_address))
         [] type = "MEMORY_SEGMENT_TEMP" ->
              IF index >= 8 THEN NullPtr
              ELSE Snprintf(size, VirtualSegmentText(5 + index, read_address))
         [] OTHER -> NullPtr

StaticSegmentText(filename, index, read_address) ==
  <<"@">> \o filename \o <<".">> \o FormatD(index) \o <<"\n","D","=">>
  \o (IF ~read_address THEN <<"M">> ELSE <<"A">>)

\* a static symbol that leaves the unit out
write_static_segment_no_unit(size, filename, index, read_address) ==
  IF index < 0 THEN NullPtr
  ELSE Snprintf(size, StaticSegmentText(<<"F","O","O">>, index, read_address))

write_static_segment(size, filename, index, read_address) ==
  IF index < 0 THEN NullPtr
  ELSE Snprintf(size, StaticSegmentText(filename, index, read_address))

(***************************************************************************)
(* code_writer.c: the buffer of one generator call.  status stays          *)
(* CODE_WRITER_SUCC until the call returns early; what was formatted       *)
(* before an early return stays in the local buffer.                       *)
(***************************************************************************)
NewBuffer ==
  [buf |-> <<>>, size |-> ASSEMBLY_INSTRUCTIONS_SIZE, status |-> CODE_WRITER_SUCC]

ReturnEarly(b, st) ==
  IF b.status = CODE_WRITER_SUCC THEN [b EXCEPT !.status = st] ELSE b

\* the macro, with add_newline true: H(size) is the helper called just before
UPDATE_INSTRUCTION(b, H(_)) ==
  IF b.status # CODE_WRITER_SUCC THEN b
  ELSE LET r == H(b.size)
       IN IF ~r.ok THEN ReturnEarly(b, CODE_WRITER_FAIL_WRITE)
          ELSE LET room == b.size - Len(r.text)
               IN IF room <= 1 THEN ReturnEarly(b, CODE_WRITER_FAIL_WRITE)
                  ELSE [buf |-> b.buf \o r.text \o <<NL>>,
                        size |-> room - 1,
                        status |-> CODE_WRITER_SUCC]

\* fwrite(text, 1, strlen(text), file): the characters written and the file
\* after it; a file that rejects the write takes nothing
fwrite(text, file) ==
  IF sink = "accepts"
  THEN [written |-> Len(text), file |-> file \o text]
  ELSE [written |-> 0, file |-> file]

\* a generator that writes out whatever the buffer holds when the call ends
WriteOutPartial(writer, b) ==
  [writer EXCEPT !.output_file = fwrite(b.buf, @).file]

\* the end of both entry points: only a completed buffer reaches fwrite,
\* and what fwrite returns is not looked at
WriteOut(writer, b) ==
  IF b.status = CODE_WRITER_SUCC
  THEN [writer EXCEPT !.output_file = fwrite(b.buf, @).file]
  ELSE writer

\* the loop over a table: the first matching index, or the table size + 1
LookupArithmetic(cmd) ==
  IF \E i \in 1..ARITHMETIC_LOGICAL_CMD_TABLE_SIZE :
        arithmetic_logical_cmd_table[i].command = cmd
  THEN CHOOSE i \in 1..ARITHMETIC_LOGICAL_CMD_TABLE_SIZE :
         /\ arithmetic_logical_cmd_table[i].command = cmd
         /\ \A j \in 1..(i - 1) : arithmetic_logical_cmd_table[j].command # cmd
  ELSE ARITHMETIC_LOGICAL_CMD_TABLE_SIZE + 1

LookupSegment(segment) ==
  IF \E i \in 1..MEMORY_SEGMENT_TABLE_SIZE :
        memory_segment_table[i].segment = segment
  THEN CHOOSE i \in 1..MEMORY_SEGMENT_TABLE_SIZE :
         /\ memory_segment_table[i].segment = segment
         /\ \A j \in 1..(i - 1) : memory_segment_table[j].segment # segment
  ELSE MEMORY_SEGMENT_TABLE_SIZE + 1

UnaryTypes == {"ARITHMETIC_LOGICAL_NEG", "ARITHMETIC_LOGICAL_NOT"}

BitwiseTypes == {"ARITHMETIC_LOGICAL_ADD", "ARITHMETIC_LOGICAL_SUB",
                 "ARITHMETIC_LOGICAL_AND", "ARITHMETIC_LOGICAL_OR"}

\* the boolean operations with lt left out
BooleanTypesWithoutLt == {"ARITHMETIC_LOGICAL_EQ", "ARITHMETIC_LOGICAL_GT"}

BooleanTypes == {"ARITHMETIC_LOGICAL_EQ", "ARITHMETIC_LOGICAL_GT",
                 "ARITHMETIC_LOGICAL_LT"}

(***************************************************************************)
(* code_writer_write_arithmetic: the status returned and the writer after  *)
(* the call.                                                               *)
(***************************************************************************)
code_writer_write_arithmetic(writer, cmd) ==
  LET idx == LookupArithmetic(cmd)
  IN IF idx >= ARITHMETIC_LOGICAL_CMD_TABLE_SIZE + 1
     THEN [status |-> CODE_WRITER_INVALID_ARITHMETIC_CMD, writer |-> writer]
     ELSE
       LET command_type == arithmetic_logical_cmd_table[idx].type
           b1 == UPDATE_INSTRUCTION(NewBuffer,
                   LAMBDA s : Written(<<"/","/"," ">> \o arithmetic_logical_cmd_table[idx].command))
           \* pop the first operand and keep it in the data register
           b2 == UPDATE_INSTRUCTION(b1, stack_get_top_element_assembly)
           b3 == UPDATE_INSTRUCTION(b2, store_in_register)
           \* binary operations pop the second operand into the memory register
           b4 == IF command_type \in UnaryTypes THEN b3
                 ELSE UPDATE_INSTRUCTION(b3, stack_get_top_element_assembly)
           b5 == UPDATE_INSTRUCTION(b4,
                   LAMBDA s :
                     IF command_type \in UnaryTypes
                     THEN write_unary_operation(s, command_type)
                     ELSE IF command_type \in BitwiseTypes
                     THEN write_arithmetic_bitwise_operation(s, command_type)
                     ELSE write_boolean_operation(s, command_type,
                                                  writer.boolean_op_count))
           b6 == UPDATE_INSTRUCTION(b5, stack_push_element_assembly)
           \* the count is increased as soon as the boolean helper was called
           counted ==
             IF command_type \in BooleanTypes /\ b4.status = CODE_WRITER_SUCC
             THEN [writer EXCEPT !.boolean_op_count = @ + 1]
             ELSE writer
       IN [status |-> b6.status, writer |-> WriteOut(counted, b6)]

(***************************************************************************)
(* code_writer_write_push_pop                                              *)
(***************************************************************************)
SymbolSegmentTypes == {"MEMORY_SEGMENT_ARGUMENT", "MEMORY_SEGMENT_LOCAL",
                       "MEMORY_SEGMENT_THIS", "MEMORY_SEGMENT_THAT"}

VirtualSegmentTypes == {"MEMORY_SEGMENT_POINTER", "MEMORY_SEGMENT_TEMP"}

\* an inner switch that takes constant as a pop target too
SegmentAccessAnyTarget(b, writer, segment_type, segment_index, read_address) ==
  CASE segment_type = "MEMORY_SEGMENT_CONSTANT" ->
         UPDATE_INSTRUCTION(b,
           LAMBDA s : write_constant_index(s, segment_index))
    [] segment_type = "MEMORY_SEGMENT_STATIC" ->
         UPDATE_INSTRUCTION(b,
           LAMBDA s : write_static_segment(s, writer.input_file,
                                           segment_index, read_address))
    [] segment_type \in SymbolSegmentTypes ->
         UPDATE_INSTRUCTION(
           UPDATE_INSTRUCTION(b,
             LAMBDA s : write_constant_index(s, segment_index)),
           LAMBDA s : write_symbol_segment(s, segment_type, read_address))
    [] segment_type \in VirtualSegmentTypes ->
         UPDATE_INSTRUCTION(b,
           LAMBDA s : write_virtual_segment(s, segment_type, segment_index,
                                            read_address))

\* the inner switch: the value (push) or the address (pop) of the segment
\* cell goes to the data register
SegmentAccess(b, writer, segment_type, segment_index, read_address) ==
  CASE segment_type = "MEMORY_SEGMENT_CONSTANT" ->
         IF read_address
         THEN ReturnEarly(b, CODE_WRITER_INVALID_PUSH_POP_SEGMENT)
         ELSE UPDATE_INSTRUCTION(b,
                LAMBDA s : write_constant_index(s, segment_index))
    [] segment_type = "MEMORY_SEGMENT_STATIC" ->
         UPDATE_INSTRUCTION(b,
           LAMBDA s : write_static_segment(s, writer.input_file,
                                           segment_index, read_address))
    [] segment_type \in SymbolSegmentTypes ->
         UPDATE_INSTRUCTION(
           UPDATE_INSTRUCTION(b,
             LAMBDA s : write_constant_index(s, segment_index)),
           LAMBDA s : write_symbol_segment(s, segment_type, read_address))
    [] segment_type \in VirtualSegmentTypes ->
         UPDATE_INSTRUCTION(b,
           LAMBDA s : write_virtual_segment(s, segment_type, segment_index,
                                            read_address))

code_writer_write_push_pop(writer, cmd, segment, segment_index) ==
  LET index == LookupSegment(segment)
  IN IF cmd # C_PUSH /\ cmd # C_POP
     THEN [status |-> CODE_WRITER_INVALID_PUSH_POP_CMD, writer |-> writer]
     ELSE IF index >= MEMORY_SEGMENT_TABLE_SIZE + 1
     THEN [status |-> CODE_WRITER_INVALID_PUSH_POP_SEGMENT, writer |-> writer]
     ELSE IF segment_index < 0
     THEN [status |-> CODE_WRITER_INVALID_PUSH_POP_INDEX, writer |-> writer]
     ELSE
       LET segment_type == memory_segment_table[index].type
           b1 == UPDATE_INSTRUCTION(NewBuffer,
                   LAMBDA s : Written(<<"/","/"," ">>
                                \o (IF cmd = C_PUSH THEN <<"p","u","s","h">> ELSE <<"p","o","p">>)
                                \o <<" ">> \o memory_segment_table[index].segment
                                \o <<" ">> \o FormatD(segment_index)))
           pushed ==
             UPDATE_INSTRUCTION(
               SegmentAccess(b1, writer, segment_type, segment_index, FALSE),
               stack_push_element_assembly)
           \* pop: the value goes to R13, the address to R14
           p1 == UPDATE_INSTRUCTION(b1, stack_get_top_element_assembly)
           p2 == UPDATE_INSTRUCTION(p1, store_in_register)
           p3 == UPDATE_INSTRUCTION(p2, LAMBDA s : store_in_temp_register(s, 13))
           p4 == SegmentAccess(p3, writer, segment_type, segment_index, TRUE)
           p5 == UPDATE_INSTRUCTION(p4, LAMBDA s : store_in_temp_register(s, 14))
           p6 == UPDATE_INSTRUCTION(p5, LAMBDA s : get_in_temp_register(s, 13, FALSE))
           p7 == UPDATE_INSTRUCTION(p6, LAMBDA s : get_in_temp_register(s, 14, TRUE))
           popped == UPDATE_INSTRUCTION(p7, store_in_memory_register)
           b == IF cmd = C_PUSH THEN pushed ELSE popped
       IN [status |-> b.status, writer |-> WriteOut(writer, b)]

(***************************************************************************)
(* parser.c: characters, fgets and sscanf                                  *)
(***************************************************************************)
\* the terminating byte of a C string
NUL == "NUL"

IsSpace(c) == c \in { " ", "\t", "\n", "\r", "\f" }

Letters ==
  { "a","b","c","d","e","f","g","h","i","j","k","l","m",
    "n","o","p","q","r","s","t","u","v","w","x","y","z",
    "A","B","C","D","E","F","G","H","I","J","K","L","M",
    "N","O","P","Q","R","S","T","U","V","W","X","Y","Z" }

IsAlnum(c) == c \in Letters \/ IsDigit(c)

Min(a, b) == IF a < b THEN a ELSE b

\* the string held by an array of bytes: what precedes its first NUL
CStr(bytes) ==
  IF \E i \in 1..Len(bytes) : bytes[i] = NUL
  THEN SubSeq(bytes, 1, (CHOOSE i \in 1..Len(bytes) :
                           bytes[i] = NUL /\ \A j \in 1..(i - 1) : bytes[j] # NUL) - 1)
  ELSE bytes

\* strncpy(dst, src, n): n bytes, the string cut or padded with NUL
Strncpy(src, n) ==
  [i \in 1..n |-> IF i <= Len(src) THEN src[i] ELSE NUL]

CURRENT_LINE_MAX_LENGTH == 256
PARSED_COMMAND_INSTRUCTION_MAX_LENGTH == 4
PARSED_COMMAND_ARG1_MAX_LENGTH == 8
\* the width the label and function name conversions are given
PARSED_COMMAND_LABEL_MAX_LENGTH == 32

\* a read that returns nothing at the end of the file and sets no mark
FgetsNoEndMark(file, pos, n) ==
  IF pos >= Len(file)
  THEN [null |-> TRUE, line |-> <<>>, pos |-> pos, eof |-> FALSE]
  ELSE LET limit == Min(Len(file), pos + n - 1)
           stop == IF \E k \in (pos + 1)..limit : file[k] = NL
                   THEN CHOOSE k \in (pos + 1)..limit :
                          file[k] = NL /\ \A j \in (pos + 1)..(k - 1) : file[j] # NL
                   ELSE limit
       IN [null |-> FALSE,
           line |-> SubSeq(file, pos + 1, stop),
           pos |-> stop,
           eof |-> FALSE]

\* fgets(current_line, n, file) at offset pos: at most n - 1 characters, up
\* to and with the next newline; the end-of-file mark is set when the read
\* runs into the end of the file
Fgets(file, pos, n) ==
  IF pos >= Len(file)
  THEN [null |-> TRUE, line |-> <<>>, pos |-> pos, eof |-> TRUE]
  ELSE LET limit == Min(Len(file), pos + n - 1)
           stop == IF \E k \in (pos + 1)..limit : file[k] = NL
                   THEN CHOOSE k \in (pos + 1)..limit :
                          file[k] = NL /\ \A j \in (pos + 1)..(k - 1) : file[j] # NL
                   ELSE limit
       IN [null |-> FALSE,
           line |-> SubSeq(file, pos + 1, stop),
           pos |-> stop,
           eof |-> file[stop] # NL /\ stop - pos < n - 1]

\* strstr(ptr, "//") and the cut at it
StripComment(l) ==
  IF \E i \in 1..(Len(l) - 1) : l[i] = "/" /\ l[i + 1] = "/"
  THEN SubSeq(l, 1, (CHOOSE i \in 1..(Len(l) - 1) :
                       /\ l[i] = "/" /\ l[i + 1] = "/"
                       /\ \A j \in 1..(i - 1) : ~(l[j] = "/" /\ l[j + 1] = "/")) - 1)
  ELSE l

\* the index of the first character at or after i that is no white space
RECURSIVE SkipSpace(_, _)
SkipSpace(s, i) ==
  IF i <= Len(s) /\ IsSpace(s[i]) THEN SkipSpace(s, i + 1) ELSE i

\* leading and trailing white space removed
RECURSIVE TrimRight(_)
TrimRight(s) ==
  IF Len(s) > 1 /\ IsSpace(s[Len(s)]) THEN TrimRight(SubSeq(s, 1, Len(s) - 1)) ELSE s

Trim(s) ==
  LET i == SkipSpace(s, 1)
  IN IF i > Len(s) THEN <<>> ELSE TrimRight(SubSeq(s, i, Len(s)))

\* what strcpy may do when source and destination overlap
StrcpyOutcomes == { "forward", "backward" }

\* strcpy(current_line, ptr), ptr lying d characters into current_line: the
\* objects overlap and the behaviour is undefined.  A copy that runs forward
\* gives the string s at ptr; one that runs backward from the terminator
\* reads characters it has already overwritten.
StrcpyOverlap(s, d) ==
  IF strcpy_overlap = "forward" \/ d = 0 THEN s
  ELSE LET t == s \o <<NUL>>
       IN CStr([i \in 1..Len(t) |-> t[i + d * ((Len(t) - i) \div d)]])

\* the loop of parser_advance: lines are read until one holds a command
RECURSIVE ReadCommandLine(_, _, _)
ReadCommandLine(file, pos, line_number) ==
  LET g == Fgets(file, pos, CURRENT_LINE_MAX_LENGTH + 1)
  IN IF g.null
     THEN [found |-> FALSE, line |-> <<>>, pos |-> pos, eof |-> g.eof,
           line_number |-> line_number]
     ELSE IF Trim(StripComment(g.line)) = <<>>
     THEN ReadCommandLine(file, g.pos, line_number + 1)
     ELSE [found |-> TRUE,
           line |-> StrcpyOverlap(Trim(StripComment(g.line)),
                                  SkipSpace(StripComment(g.line), 1) - 1),
           pos |-> g.pos,
           eof |-> g.eof, line_number |-> line_number + 1]

\* the directives of a format
Lit(t) == [k \in 1..Len(t) |-> [kind |-> "lit", c |-> t[k], width |-> 0]]
Ws == << [kind |-> "ws", c |-> " ", width |-> 0] >>
ConvS(w) == << [kind |-> "s", c |-> " ", width |-> w] >>
ConvU == << [kind |-> "u", c |-> " ", width |-> 0] >>

\* the end of the run of non-space characters at i, at most w of them
RECURSIVE TokenEnd(_, _, _)
TokenEnd(s, i, w) ==
  IF w > 0 /\ i <= Len(s) /\ ~IsSpace(s[i]) THEN TokenEnd(s, i + 1, w - 1) ELSE i

RECURSIVE DigitsEnd(_, _)
DigitsEnd(s, i) ==
  IF i <= Len(s) /\ IsDigit(s[i]) THEN DigitsEnd(s, i + 1) ELSE i

\* sscanf(s, fmt, ...) from index i on: the number of conversions made (-1
\* when the input ends before the first one) and the values converted.  A
\* %u value is kept as the int the driver makes of it.
RECURSIVE Sscanf(_, _, _, _)
Sscanf(s, i, fmt, vals) ==
  LET inputFailure == [n |-> IF vals = <<>> THEN -1 ELSE Len(vals), vals |-> vals]
      matchFailure == [n |-> Len(vals), vals |-> vals]
  IN IF fmt = <<>> THEN matchFailure
     ELSE LET d == Head(fmt)
              j == SkipSpace(s, i)
          IN CASE d.kind = "lit" ->
                    IF i > Len(s) THEN inputFailure
                    ELSE IF s[i] = d.c THEN Sscanf(s, i + 1, Tail(fmt), vals)
                    ELSE matchFailure
               [] d.kind = "ws" -> Sscanf(s, j, Tail(fmt), vals)
               [] d.kind = "s" ->
                    IF j > Len(s) THEN inputFailure
                    ELSE Sscanf(s, TokenEnd(s, j, d.width), Tail(fmt),
                                Append(vals, SubSeq(s, j, TokenEnd(s, j, d.width) - 1)))
               [] d.kind = "u" ->
                    IF j > Len(s) THEN inputFailure
                    ELSE LET k == IF s[j] \in {"+", "-"} THEN j + 1 ELSE j
                             e == DigitsEnd(s, k)
                             v == ParseDigits(SubSeq(s, k, e - 1))
                         IN IF e = k THEN matchFailure
                            ELSE Sscanf(s, e, Tail(fmt),
                                        Append(vals, IF s[j] = "-" THEN -v ELSE v))

is_label_valid(label) ==
  /\ ~(label # <<>> /\ IsDigit(label[1]))
  /\ \A i \in 1..Len(label) :
       IsAlnum(label[i]) \/ label[i] \in { "_", ".", "$", ":" }

(***************************************************************************)
(* parser_advance: what it returns, the parser after the call and the line *)
(* number of the diagnostic it prints (0: none).  A parser is the file,    *)
(* the read offset, the end-of-file mark, input_file_line and the current  *)
(* command, whose arg1 is an array of PARSED_COMMAND_ARG1_MAX_LENGTH + 1   *)
(* bytes.                                                                  *)
(***************************************************************************)
SymbolCommand(p, rd, type, symbol, has_arg2, arg2) ==
  IF ~is_label_valid(symbol)
  THEN [ret |-> FALSE, parser |-> p, diagnostic |-> rd.line_number]
  ELSE [ret |-> TRUE,
        parser |-> [p EXCEPT
          !.current_command =
            [type |-> type,
             arg1 |-> Strncpy(symbol, PARSED_COMMAND_ARG1_MAX_LENGTH + 1),
             arg2 |-> IF has_arg2 THEN arg2 ELSE @.arg2]],
        diagnostic |-> 0]

parser_advance(parser) ==
  IF parser.eof THEN [ret |-> FALSE, parser |-> parser, diagnostic |-> 0]
  ELSE
    LET rd == ReadCommandLine(parser.file, parser.pos, parser.input_file_line)
        p == [parser EXCEPT !.pos = rd.pos, !.eof = rd.eof,
                            !.input_file_line = rd.line_number]
        current_line == rd.line
        syntaxError == [ret |-> FALSE, parser |-> p, diagnostic |-> rd.line_number]
        label == Sscanf(current_line, 1,
                   Lit(<<"l","a","b","e","l">>) \o Ws \o ConvS(PARSED_COMMAND_LABEL_MAX_LENGTH), <<>>)
        ifgoto == Sscanf(current_line, 1,
                   Lit(<<"i","f","-","g","o","t","o">>) \o Ws \o ConvS(PARSED_COMMAND_LABEL_MAX_LENGTH), <<>>)
        goto == Sscanf(current_line, 1,
                   Lit(<<"g","o","t","o">>) \o Ws \o ConvS(PARSED_COMMAND_LABEL_MAX_LENGTH), <<>>)
        function == Sscanf(current_line, 1,
                   Lit(<<"f","u","n","c","t","i","o","n">>) \o Ws \o ConvS(PARSED_COMMAND_LABEL_MAX_LENGTH)
                   \o Ws \o ConvU, <<>>)
        call == Sscanf(current_line, 1,
                   Lit(<<"c","a","l","l">>) \o Ws \o ConvS(PARSED_COMMAND_LABEL_MAX_LENGTH)
                   \o Ws \o ConvU, <<>>)
        generic == Sscanf(current_line, 1,
                   ConvS(PARSED_COMMAND_INSTRUCTION_MAX_LENGTH) \o Ws
                   \o ConvS(PARSED_COMMAND_ARG1_MAX_LENGTH) \o Ws \o ConvU, <<>>)
    IN IF ~rd.found THEN [ret |-> FALSE, parser |-> p, diagnostic |-> 0]
       ELSE IF current_line = <<"r","e","t","u","r","n">>
       THEN [ret |-> TRUE,
             parser |-> [p EXCEPT !.current_command.type = C_RETURN],
             diagnostic |-> 0]
       ELSE IF label.n = 1 THEN SymbolCommand(p, rd, C_LABEL, label.vals[1], FALSE, 0)
       ELSE IF ifgoto.n = 1 THEN SymbolCommand(p, rd, C_IF, ifgoto.vals[1], FALSE, 0)
       ELSE IF goto.n = 1 THEN SymbolCommand(p, rd, C_GOTO, goto.vals[1], FALSE, 0)
       ELSE IF function.n = 2
       THEN SymbolCommand(p, rd, C_FUNCTION, function.vals[1], TRUE, function.vals[2])
       ELSE IF call.n = 2
       THEN SymbolCommand(p, rd, C_CALL, call.vals[1], TRUE, call.vals[2])
       ELSE IF generic.n < 4
       THEN CASE generic.n = 1 ->
                   [ret |-> TRUE,
                    parser |-> [p EXCEPT !.current_command =
                      [type |-> C_ARITHMETIC,
                       arg1 |-> Strncpy(generic.vals[1], PARSED_COMMAND_ARG1_MAX_LENGTH + 1),
                       arg2 |-> @.arg2]],
                    diagnostic |-> 0]
              [] generic.n = 3 ->
                   IF generic.vals[1] = <<"p","u","s","h">> \/ generic.vals[1] = <<"p","o","p">>
                   THEN [ret |-> TRUE,
                         parser |-> [p EXCEPT !.current_command =
                           [type |-> IF generic.vals[1] = <<"p","u","s","h">> THEN C_PUSH ELSE C_POP,
                            arg1 |-> Strncpy(generic.vals[2], PARSED_COMMAND_ARG1_MAX_LENGTH + 1),
                            arg2 |-> generic.vals[3]]],
                         diagnostic |-> 0]
                   ELSE syntaxError
              [] OTHER -> syntaxError
       ELSE syntaxError

\* parser_arg1(parser, output, output_size): the string at arg1 copied into
\* an array of output_size bytes.  When arg1 holds no NUL the copy runs on
\* into the memory behind it, whose bytes up to the next NUL are `behind`.
parser_arg1(parser, output_size, behind) ==
  Strncpy(CStr(parser.current_command.arg1 \o behind \o <<NUL>>), output_size)

parser_has_more_lines(parser) == ~parser.eof

parser_command_type(parser) == parser.current_command.type

parser_arg2(parser) == parser.current_command.arg2

parser_get_line_number(parser) == parser.input_file_line

\* parser_init: the parser of a file that could be opened; the current
\* command is not initialised and is not read before it is set
parser_init(file) ==
  [file |-> file, pos |-> 0, eof |-> FALSE, input_file_line |-> 0,
   current_command |->
     [type |-> "indeterminate",
      arg1 |-> Strncpy(<<>>, PARSED_COMMAND_ARG1_MAX_LENGTH + 1),
      arg2 |-> 0]]

(***************************************************************************)
(* code_writer_set_filename, called by translate_file once per source unit *)
(* (vmtranslator.c:76); the unit identifier is the file name with its      *)
(* extension stripped, and the counters are left alone.                    *)
(***************************************************************************)
RECURSIVE StripExtension(_)
StripExtension(name) ==
  IF name = <<>> THEN <<>>
  ELSE IF \A i \in 1..Len(name) : name[i] # "." THEN name
  ELSE IF name[Len(name)] = "." THEN SubSeq(name, 1, Len(name) - 1)
  ELSE StripExtension(SubSeq(name, 1, Len(name) - 1))

code_writer_set_filename(writer, filename) ==
  [status |-> CODE_WRITER_SUCC,
   writer |-> [writer EXCEPT !.input_file = StripExtension(filename)]]

\* code_writer_init: the writer of a new output
code_writer_init ==
  [output_file |-> <<>>, input_file |-> <<"F","O","O">>, boolean_op_count |-> 0]

(***************************************************************************)
(* The target machine: 16-bit words, an address register, a data register, *)
(* the memory cell M = RAM[A], the symbols of its assembly language.       *)
(***************************************************************************)
WordSize == 65536

Signed(v) == IF v >= 32768 THEN v - WordSize ELSE v

RECURSIVE AndBits(_, _, _)
AndBits(a, b, n) ==
  IF n = 0 THEN 0
  ELSE (IF a % 2 = 1 /\ b % 2 = 1 THEN 1 ELSE 0)
       + 2 * AndBits(a \div 2, b \div 2, n - 1)

RECURSIVE OrBits(_, _, _)
OrBits(a, b, n) ==
  IF n = 0 THEN 0
  ELSE (IF a % 2 = 1 \/ b % 2 = 1 THEN 1 ELSE 0)
       + 2 * OrBits(a \div 2, b \div 2, n - 1)

ReadRam(m, a) == IF a \in DOMAIN m THEN m[a] ELSE 0

WriteRam(m, a, v) == [x \in (DOMAIN m) \cup {a} |-> IF x = a THEN v ELSE m[x]]

IsComment(l) == StartsWith(l, <<"/","/">>)
IsLabel(l) == l # <<>> /\ l[1] = "("
IsAddress(l) == l # <<>> /\ l[1] = "@"
LabelName(l) == SubSeq(l, 2, Len(l) - 1)
AddressSymbol(l) == SubSeq(l, 2, Len(l))

IsPredefined(sym) ==
  \/ sym \in {<<"S","P">>, <<"L","C","L">>, <<"A","R","G">>, <<"T","H","I","S">>, <<"T","H","A","T">>}
  \/ /\ Len(sym) >= 2 /\ sym[1] = "R" /\ AllDigits(Tail(sym))
     /\ ParseDigits(Tail(sym)) <= 15

Predefined(sym) ==
  CASE sym = <<"S","P">> -> 0
    [] sym = <<"L","C","L">> -> 1
    [] sym = <<"A","R","G">> -> 2
    [] sym = <<"T","H","I","S">> -> 3
    [] sym = <<"T","H","A","T">> -> 4
    [] OTHER -> ParseDigits(Tail(sym))

IsLabelSymbol(program, sym) ==
  \E i \in 1..Len(program) : IsLabel(program[i]) /\ LabelName(program[i]) = sym

\* a label stands for the place of its (LABEL) line
LabelAddress(program, sym) ==
  CHOOSE i \in 1..Len(program) :
    /\ IsLabel(program[i]) /\ LabelName(program[i]) = sym
    /\ \A j \in 1..(i - 1) : ~(IsLabel(program[j]) /\ LabelName(program[j]) = sym)

IsVariableSymbol(program, sym) ==
  ~AllDigits(sym) /\ ~IsPredefined(sym) /\ ~IsLabelSymbol(program, sym)

FirstUse(program, sym) ==
  CHOOSE i \in 1..Len(program) :
    /\ IsAddress(program[i]) /\ AddressSymbol(program[i]) = sym
    /\ \A j \in 1..(i - 1) :
         ~(IsAddress(program[j]) /\ AddressSymbol(program[j]) = sym)

\* variables are allocated from address 16 on, in the order of their first use
VariableAddress(program, sym) ==
  16 + Cardinality({ AddressSymbol(program[j]) :
                       j \in { k \in 1..(FirstUse(program, sym) - 1) :
                                 /\ IsAddress(program[k])
                                 /\ IsVariableSymbol(program, AddressSymbol(program[k])) } })

Resolve(program, sym) ==
  IF AllDigits(sym) THEN ParseDigits(sym)
  ELSE IF IsPredefined(sym) THEN Predefined(sym)
  ELSE IF IsLabelSymbol(program, sym) THEN LabelAddress(program, sym)
  ELSE VariableAddress(program, sym)

IndexOf(l, c) ==
  IF \E i \in 1..Len(l) : l[i] = c
  THEN CHOOSE i \in 1..Len(l) : l[i] = c /\ \A j \in 1..(i - 1) : l[j] # c
  ELSE 0

Dest(l) == IF IndexOf(l, "=") = 0 THEN <<>> ELSE SubSeq(l, 1, IndexOf(l, "=") - 1)

CompText(l) ==
  SubSeq(l, IndexOf(l, "=") + 1,
         IF IndexOf(l, ";") = 0 THEN Len(l) ELSE IndexOf(l, ";") - 1)

JumpText(l) == IF IndexOf(l, ";") = 0 THEN <<>> ELSE SubSeq(l, IndexOf(l, ";") + 1, Len(l))

Comp(c, a, d, m) ==
  CASE c = <<"0">> -> 0
    [] c = <<"1">> -> 1
    [] c = <<"-","1">> -> WordSize - 1
    [] c = <<"D">> -> d
    [] c = <<"A">> -> a
    [] c = <<"M">> -> m
    [] c = <<"!","D">> -> WordSize - 1 - d
    [] c = <<"!","A">> -> WordSize - 1 - a
    [] c = <<"!","M">> -> WordSize - 1 - m
    [] c = <<"-","D">> -> (WordSize - d) % WordSize
    [] c = <<"-","A">> -> (WordSize - a) % WordSize
    [] c = <<"-","M">> -> (WordSize - m) % WordSize
    [] c = <<"D","+","1">> -> (d + 1) % WordSize
    [] c = <<"A","+","1">> -> (a + 1) % WordSize
    [] c = <<"M","+","1">> -> (m + 1) % WordSize
    [] c = <<"D","-","1">> -> (d + WordSize - 1) % WordSize
    [] c = <<"A","-","1">> -> (a + WordSize - 1) % WordSize
    [] c = <<"M","-","1">> -> (m + WordSize - 1) % WordSize
    [] c = <<"D","+","A">> -> (d + a) % WordSize
    [] c = <<"D","+","M">> -> (d + m) % WordSize
    [] c = <<"D","-","A">> -> (d + WordSize - a) % WordSize
    [] c = <<"D","-","M">> -> (d + WordSize - m) % WordSize
    [] c = <<"A","-","D">> -> (a + WordSize - d) % WordSize
    [] c = <<"M","-","D">> -> (m + WordSize - d) % WordSize
    [] c = <<"D","&","A">> -> AndBits(d, a, 16)
    [] c = <<"D","&","M">> -> AndBits(d, m, 16)
    [] c = <<"D","|","A">> -> OrBits(d, a, 16)
    [] c = <<"D","|","M">> -> OrBits(d, m, 16)

Jumps(j, v) ==
  CASE j = <<>> -> FALSE
    [] j = <<"J","G","T">> -> Signed(v) > 0
    [] j = <<"J","E","Q">> -> v = 0
    [] j = <<"J","G","E">> -> Signed(v) >= 0
    [] j = <<"J","L","T">> -> Signed(v) < 0
    [] j = <<"J","N","E">> -> v # 0
    [] j = <<"J","L","E">> -> Signed(v) <= 0
    [] j = <<"J","M","P">> -> TRUE

Has(dest, c) == \E i \in 1..Len(dest) : dest[i] = c

(***************************************************************************)
(* The generator's calls as actions                                        *)
(***************************************************************************)
Writer ==
  [output_file |-> output, input_file |-> input_file,
   boolean_op_count |-> boolean_op_count]

ArithmeticCall(cmd) == [kind |-> C_ARITHMETIC, arg1 |-> cmd, arg2 |-> 0]

PushPopCall(cmd, segment, index) == [kind |-> cmd, arg1 |-> segment, arg2 |-> index]

\* translate_file's switch over the command type
Dispatch(writer, call) ==
  IF call.kind = C_ARITHMETIC
  THEN code_writer_write_arithmetic(writer, call.arg1)
  ELSE code_writer_write_push_pop(writer, call.kind, call.arg1, call.arg2)

\* the writer and the log after a call that returned r
Returned(r, call) ==
  /\ output' = r.writer.output_file
  /\ input_file' = r.writer.input_file
  /\ boolean_op_count' = r.writer.boolean_op_count
  /\ status' = r.status
  /\ emitted' = Append(emitted,
       [unit |-> unit, call |-> call, status |-> r.status,
        count |-> boolean_op_count,
        text |-> SubSeq(r.writer.output_file, Len(output) + 1,
                        Len(r.writer.output_file))])

(***************************************************************************)
(* SpecGen: one run of main over a list of source units; within a unit     *)
(* the driver makes any generator calls.                                   *)
(***************************************************************************)
MaxCalls == 2

UnitLists ==
  { <<<<"A",".","v","m">>>>, <<<<"A",".","v","m">>, <<"B",".","v","m">>>>, <<<<"B",".","v","m">>, <<"A",".","v","m">>>>,
    <<<<"A",".","v","m">>, <<"A",".","B",".","v","m">>>>, <<<<"A",".","1",".","v","m">>, <<"A",".","v","m">>>> }

GenOperators ==
  { <<"a","d","d">>, <<"s","u","b">>, <<"n","e","g">>, <<"e","q">>, <<"g","t">>, <<"l","t">>, <<"a","n","d">>, <<"o","r">>, <<"n","o","t">>, <<"x","o","r">> }

GenSegments == { <<"s","t","a","t","i","c">>, <<"c","o","n","s","t","a","n","t">>, <<"h","e","a","p">> }

GenIndexes == { -1, 1 }

NoCpu ==
  /\ prog = <<>> /\ phase = "gen" /\ rom = <<>> /\ pc = 0
  /\ regA = 0 /\ regD = 0 /\ ram = <<>> /\ ram0 = <<>>

ParserIdle ==
  /\ src_parser = parser_init(<<>>) /\ advanced = "none" /\ diagnostic = 0
  /\ line_in = <<>> /\ arg1_out = <<>> /\ arg1_read = FALSE

NoParser == ParserIdle /\ strcpy_overlap = "forward"

NoSite ==
  site = [n_args |-> 0, n_vars |-> 0, value |-> 0, retargets |-> FALSE,
          before |-> <<>>]

\* no function begun, no call emitted
NoContext == [function |-> <<>>, calls |-> 0]

\* no run of main under way
NoRun ==
  /\ env = [argc |-> 0] /\ fs = <<>> /\ exit_code = -1 /\ reports = <<>>
  /\ sink = "accepts"
  /\ context = NoContext

InitGen ==
  /\ output = code_writer_init.output_file
  /\ input_file = code_writer_init.input_file
  /\ boolean_op_count = code_writer_init.boolean_op_count
  /\ status = CODE_WRITER_SUCC
  /\ ncalls = 0
  /\ units \in UnitLists
  /\ unit = <<>>
  /\ emitted = <<>>
  /\ NoCpu
  /\ NoParser
  /\ NoSite
  /\ NoRun

\* translate_file begins the next unit of the directory
BeginUnit ==
  /\ units # <<>>
  /\ LET r == code_writer_set_filename(Writer, Head(units))
     IN /\ output' = r.writer.output_file
        /\ input_file' = r.writer.input_file
        /\ boolean_op_count' = r.writer.boolean_op_count
        /\ status' = r.status
  /\ unit' = Head(units)
  /\ units' = Tail(units)
  /\ UNCHANGED <<ncalls, emitted>>
  /\ UNCHANGED cpuVars
  /\ UNCHANGED parserVars
  /\ UNCHANGED site
  /\ UNCHANGED runVars

GenArithmetic ==
  /\ unit # <<>>
  /\ ncalls < MaxCalls
  /\ \E cmd \in GenOperators :
       Returned(code_writer_write_arithmetic(Writer, cmd), ArithmeticCall(cmd))
  /\ ncalls' = ncalls + 1
  /\ UNCHANGED <<units, unit>>
  /\ UNCHANGED cpuVars
  /\ UNCHANGED parserVars
  /\ UNCHANGED site
  /\ UNCHANGED runVars

GenPushPop ==
  /\ unit # <<>>
  /\ ncalls < MaxCalls
  /\ \E cmd \in {C_PUSH, C_POP}, segment \in GenSegments, index \in GenIndexes :
       Returned(code_writer_write_push_pop(Writer, cmd, segment, index),
                PushPopCall(cmd, segment, index))
  /\ ncalls' = ncalls + 1
  /\ UNCHANGED <<units, unit>>
  /\ UNCHANGED cpuVars
  /\ UNCHANGED parserVars
  /\ UNCHANGED site
  /\ UNCHANGED runVars

NextGen == BeginUnit \/ GenArithmetic \/ GenPushPop

SpecGen == InitGen /\ [][NextGen]_vars

(***************************************************************************)
(* SpecExec: a short VM program is translated by a new writer, the emitted *)
(* text is loaded and the target machine runs it.                          *)
(***************************************************************************)
\* operand values on the stack when the run starts
Vals == { 0, 1, 2, 32767, 32768, 65535 }

\* where the stack and the segments lie when the run starts
StackBase == 256
LclBase == 300
ArgBase == 400
ThisBase == 3000
ThatBase == 3010

ArithmeticNames == { arithmetic_logical_cmd_table[i].command :
                       i \in 1..ARITHMETIC_LOGICAL_CMD_TABLE_SIZE }

StorageSegments == { <<"a","r","g","u","m","e","n","t">>, <<"l","o","c","a","l">>, <<"s","t","a","t","i","c">>, <<"t","h","i","s">>, <<"t","h","a","t">>,
                     <<"p","o","i","n","t","e","r">>, <<"t","e","m","p">> }

ExecIndexes == { 0, 1, 7 }

ExecPrograms ==
  { <<ArithmeticCall(op)>> : op \in ArithmeticNames }
  \cup { << PushPopCall(C_PUSH, <<"c","o","n","s","t","a","n","t">>, 7),
            PushPopCall(C_PUSH, <<"c","o","n","s","t","a","n","t">>, 8),
            ArithmeticCall(<<"a","d","d">>) >> }
  \cup { <<PushPopCall(C_PUSH, <<"c","o","n","s","t","a","n","t">>, 7)>> }
  \cup { <<PushPopCall(cmd, <<"p","o","i","n","t","e","r">>, i)>> : cmd \in {C_PUSH, C_POP}, i \in {-1, 2} }
  \cup { <<PushPopCall(cmd, <<"t","e","m","p">>, i)>> : cmd \in {C_PUSH, C_POP}, i \in {-1, 8} }
  \cup { <<PushPopCall(cmd, sg, i)>> :
           cmd \in {C_PUSH, C_POP}, sg \in StorageSegments, i \in ExecIndexes }
  \cup { <<PushPopCall(C_PUSH, sg, i), PushPopCall(C_POP, sg, i)>> :
           sg \in StorageSegments, i \in ExecIndexes }

\* how far the segments are moved from these places when the run starts
Shifts == { 0, 16 }

\* the cells the segments of the programs address hold their address + 1000
SegmentCells ==
  (5..12) \cup (16..17)
  \cup { base + shift + i : base \in {LclBase, ArgBase, ThisBase, ThatBase},
                            shift \in Shifts, i \in ExecIndexes }

InitialRam(x, y, shift) ==
  [a \in (0..4) \cup SegmentCells \cup {StackBase, StackBase + 1} |->
     CASE a = 0 -> StackBase + 2
       [] a = 1 -> LclBase + shift
       [] a = 2 -> ArgBase + shift
       [] a = 3 -> ThisBase + shift
       [] a = 4 -> ThatBase + shift
       [] a = StackBase -> x
       [] a = StackBase + 1 -> y
       [] OTHER -> a + 1000]

InitExec ==
  /\ output = code_writer_init.output_file
  /\ input_file = code_writer_init.input_file
  /\ boolean_op_count = code_writer_init.boolean_op_count
  /\ status = CODE_WRITER_SUCC
  /\ ncalls = 0
  /\ units = <<>>
  /\ unit = <<>>
  /\ emitted = <<>>
  /\ prog \in ExecPrograms
  /\ phase = "gen"
  /\ rom = <<>>
  /\ pc = 0
  /\ regA = 0
  /\ regD = 0
  /\ \E x \in Vals, y \in Vals, shift \in Shifts : ram = InitialRam(x, y, shift)
  /\ ram0 = ram
  /\ NoParser
  /\ NoSite
  /\ NoRun

\* the next command of the program is handed to the generator
Translate ==
  /\ phase = "gen"
  /\ prog # <<>>
  /\ Returned(Dispatch(Writer, Head(prog)), Head(prog))
  /\ prog' = Tail(prog)
  /\ ncalls' = ncalls + 1
  /\ UNCHANGED <<units, unit, phase, rom, pc, regA, regD, ram, ram0>>
  /\ UNCHANGED parserVars
  /\ UNCHANGED site
  /\ UNCHANGED runVars

\* the output is assembled and loaded
Load ==
  /\ phase = "gen"
  /\ prog = <<>>
  /\ rom' = SplitLines(output)
  /\ pc' = 1
  /\ phase' = "run"
  /\ UNCHANGED <<regA, regD, ram, ram0, prog>>
  /\ UNCHANGED writerVars
  /\ UNCHANGED genVars
  /\ UNCHANGED parserVars
  /\ UNCHANGED site
  /\ UNCHANGED runVars

\* one line of the program: a comment or a label (nothing to do), an
\* address instruction or a compute instruction
Step ==
  /\ phase = "run"
  /\ pc \in 1..Len(rom)
  /\ LET l == rom[pc]
         m == ReadRam(ram, regA)
         v == Comp(CompText(l), regA, regD, m)
     IN IF IsComment(l) \/ IsLabel(l)
        THEN pc' = pc + 1 /\ UNCHANGED <<regA, regD, ram>>
        ELSE IF IsAddress(l)
        THEN /\ regA' = Resolve(rom, AddressSymbol(l))
             /\ pc' = pc + 1
             /\ UNCHANGED <<regD, ram>>
        ELSE /\ regA' = IF Has(Dest(l), "A") THEN v ELSE regA
             /\ regD' = IF Has(Dest(l), "D") THEN v ELSE regD
             /\ ram' = IF Has(Dest(l), "M") THEN WriteRam(ram, regA, v) ELSE ram
             /\ pc' = IF Jumps(JumpText(l), v) THEN regA ELSE pc + 1
  /\ UNCHANGED <<prog, phase, rom, ram0>>
  /\ UNCHANGED writerVars
  /\ UNCHANGED genVars
  /\ UNCHANGED parserVars
  /\ UNCHANGED site
  /\ UNCHANGED runVars

\* the program counter left the program
Halt ==
  /\ phase = "run"
  /\ pc \notin 1..Len(rom)
  /\ phase' = "halt"
  /\ UNCHANGED <<prog, rom, pc, regA, regD, ram, ram0>>
  /\ UNCHANGED writerVars
  /\ UNCHANGED genVars
  /\ UNCHANGED parserVars
  /\ UNCHANGED site
  /\ UNCHANGED runVars

NextExec == Translate \/ Load \/ Step \/ Halt

SpecExec == InitExec /\ [][NextExec]_vars

(***************************************************************************)
(* What the claims speak of                                                *)
(***************************************************************************)
Calls == [i \in 1..Len(emitted) |-> emitted[i].call]

Succeeded(i) == emitted[i].status = CODE_WRITER_SUCC

Sp(m) == ReadRam(m, 0)

\* the value on top of the stack
Top(m) == ReadRam(m, Sp(m) - 1)

\* the operands of a binary command: x was pushed first, y is on top
OperandX == ReadRam(ram0, Sp(ram0) - 2)
OperandY == ReadRam(ram0, Sp(ram0) - 1)

\* the program ran to its end
Ran(program) == phase = "halt" /\ Calls = program

\* the VM's binary commands on 16-bit words
VmBinary(op, x, y) ==
  CASE op = <<"a","d","d">> -> (x + y) % WordSize
    [] op = <<"s","u","b">> -> (x + WordSize - y) % WordSize
    [] op = <<"a","n","d">> -> AndBits(x, y, 16)
    [] op = <<"o","r">> -> OrBits(x, y, 16)

VmCompare(op, x, y) ==
  CASE op = <<"e","q">> -> x = y
    [] op = <<"g","t">> -> Signed(x) > Signed(y)
    [] op = <<"l","t">> -> Signed(x) < Signed(y)

\* C1: add, sub, and, or leave x OP y on top of the stack, x the operand
\* pushed first and y the one pushed second; push constant 7, push constant
\* 8, add leaves 15.
C1_BinaryOperandOrder ==
  /\ \A op \in { <<"a","d","d">>, <<"s","u","b">>, <<"a","n","d">>, <<"o","r">> } :
       Ran(<<ArithmeticCall(op)>>) =>
         /\ Top(ram) = VmBinary(op, OperandX, OperandY)
         /\ Sp(ram) = Sp(ram0) - 1
  /\ Ran(<< PushPopCall(C_PUSH, <<"c","o","n","s","t","a","n","t">>, 7),
            PushPopCall(C_PUSH, <<"c","o","n","s","t","a","n","t">>, 8),
            ArithmeticCall(<<"a","d","d">>) >>) => Top(ram) = 15

\* C2: eq, gt, lt push -1 exactly when the predicate holds of x (pushed
\* first) and y (pushed second), and 0 otherwise.
C2_ComparisonResult ==
  \A op \in { <<"e","q">>, <<"g","t">>, <<"l","t">> } :
    Ran(<<ArithmeticCall(op)>>) =>
      Top(ram) = IF VmCompare(op, OperandX, OperandY) THEN WordSize - 1 ELSE 0

\* the symbols of the address instructions of a text that are neither
\* numbers nor predefined nor labels of that text
VariableSymbols(text) ==
  LET ls == SplitLines(text)
  IN { AddressSymbol(ls[k]) :
         k \in { n \in 1..Len(ls) :
                   IsAddress(ls[n]) /\ IsVariableSymbol(ls, AddressSymbol(ls[n])) } }

IsStaticCall(i) ==
  emitted[i].call.kind \in {C_PUSH, C_POP} /\ emitted[i].call.arg1 = <<"s","t","a","t","i","c">>

\* C3: push/pop static i emits the symbol <unit identifier>.<i>, and the
\* symbols emitted for the same index in two different units differ.
C3_StaticNeverAliases ==
  \A i \in 1..Len(emitted) :
    (IsStaticCall(i) /\ Succeeded(i)) =>
      /\ VariableSymbols(emitted[i].text) =
           { StripExtension(emitted[i].unit) \o <<".">> \o FormatD(emitted[i].call.arg2) }
      /\ \A j \in 1..Len(emitted) :
           ( /\ IsStaticCall(j) /\ Succeeded(j)
             /\ emitted[j].unit # emitted[i].unit
             /\ emitted[j].call.arg2 = emitted[i].call.arg2 )
           => VariableSymbols(emitted[j].text) \cap VariableSymbols(emitted[i].text) = {}

C3_Witness ==
  \E i, j \in 1..Len(emitted) :
    /\ i < j /\ IsStaticCall(i) /\ IsStaticCall(j) /\ Succeeded(i) /\ Succeeded(j)
    /\ emitted[i].unit # emitted[j].unit
    /\ emitted[i].call.arg2 = emitted[j].call.arg2

IsComparison(i) ==
  emitted[i].call.kind = C_ARITHMETIC /\ emitted[i].call.arg1 \in { <<"e","q">>, <<"g","t">>, <<"l","t">> }

\* the names of the labels a text defines, in order
LabelsDefined(text) ==
  LET ls == SelectSeq(SplitLines(text), IsLabel)
  IN [k \in 1..Len(ls) |-> LabelName(ls[k])]

\* C4: no label is defined twice in one output; each comparison defines
\* BOOLEAN_TRUE.n and BOOLEAN_CONTINUE.n for an n no earlier comparison used.
C4_BooleanLabelsUnique ==
  /\ LET ls == LabelsDefined(output)
     IN \A a, b \in 1..Len(ls) : a # b => ls[a] # ls[b]
  /\ \A i \in 1..Len(emitted) :
       (IsComparison(i) /\ Succeeded(i)) =>
         /\ LabelsDefined(emitted[i].text) =
              << <<"B","O","O","L","E","A","N","_","T","R","U","E",".">> \o FormatD(emitted[i].count),
                 <<"B","O","O","L","E","A","N","_","C","O","N","T","I","N","U","E",".">> \o FormatD(emitted[i].count) >>
         /\ \A j \in 1..(i - 1) :
              (IsComparison(j) /\ Succeeded(j)) => emitted[j].count # emitted[i].count

C4_Witness ==
  \E i, j \in 1..Len(emitted) :
    /\ i < j /\ IsComparison(i) /\ IsComparison(j) /\ Succeeded(i) /\ Succeeded(j)
    /\ emitted[i].unit # emitted[j].unit

\* the calls the generator must refuse
IsInvalidCall(call) ==
  IF call.kind = C_ARITHMETIC
  THEN call.arg1 \notin ArithmeticNames
  ELSE \/ call.arg1 \notin { memory_segment_table[i].segment :
                               i \in 1..MEMORY_SEGMENT_TABLE_SIZE }
       \/ call.arg2 < 0
       \/ (call.kind = C_POP /\ call.arg1 = <<"c","o","n","s","t","a","n","t">>)

\* the comparisons among the first n calls that succeeded
RECURSIVE ComparisonsBefore(_)
ComparisonsBefore(n) ==
  IF n = 0 THEN 0
  ELSE ComparisonsBefore(n - 1) + (IF IsComparison(n) /\ Succeeded(n) THEN 1 ELSE 0)

\* the texts of the first n calls, one after the other
RECURSIVE TextsUpTo(_)
TextsUpTo(n) == IF n = 0 THEN <<>> ELSE TextsUpTo(n - 1) \o emitted[n].text

\* C7: a refused call returns a failure, appends nothing and leaves the
\* boolean counter alone; every call that succeeds emits the text it emits
\* when the refused calls before it are left out.
C7_FailedCallsLeaveNoTrace ==
  /\ output = TextsUpTo(Len(emitted))
  /\ boolean_op_count = ComparisonsBefore(Len(emitted))
  /\ \A i \in 1..Len(emitted) :
       /\ IsInvalidCall(emitted[i].call) => ~Succeeded(i)
       /\ ~Succeeded(i) => emitted[i].text = <<>>
       /\ Succeeded(i) =>
            emitted[i].text =
              Dispatch([output_file |-> <<>>,
                        input_file |-> StripExtension(emitted[i].unit),
                        boolean_op_count |-> ComparisonsBefore(i - 1)],
                       emitted[i].call).writer.output_file

C7_Witness ==
  \E i, j \in 1..Len(emitted) :
    /\ i < j /\ Succeeded(j) /\ IsComparison(j)
    /\ emitted[i].call = PushPopCall(C_POP, <<"c","o","n","s","t","a","n","t">>, 1)
    /\ emitted[i].status = CODE_WRITER_INVALID_PUSH_POP_SEGMENT

(***************************************************************************)
(* SpecParser: a source file is opened and the driver's loop calls         *)
(* parser_advance while parser_has_more_lines; after a call that returned  *)
(* true the driver reads the primary argument with parser_arg1.            *)
(***************************************************************************)
\* a symbol of PARSED_COMMAND_LABEL_MAX_LENGTH characters
LongSymbol == <<"S","y","s",".","i","n","i","t","$","a","b","c","d","e","f","g","h","i","j","k","l","m","n","o","p","q","r","s","t","u","v","w">>

SymbolSamples ==
  { <<"a">>, <<"L","1">>, <<"l","o","o","p">>, <<"a",".","$",":","_">>, <<"A","B","C","D","E","F","G","H">>, <<"A","B","C","D","E","F","G","H","I">>, <<"A","B","C","D","E","F","G","H","I","J">>,
    <<"A","B","C","D","E","F","G","H","I","K">>, <<"M","a","i","n",".","f","i","b","o","n","a","c","c","i","$","i","f","_","t","r","u","e",":","0">>,
    LongSymbol, LongSymbol \o <<"x">>, LongSymbol \o <<"-","x">>, <<"1","x">>, <<"a","-","b">>, <<"a","+">> }

SymbolLines ==
  { kw \o <<" ">> \o sym :
      kw \in { <<"l","a","b","e","l">>, <<"g","o","t","o">>, <<"i","f","-","g","o","t","o">> }, sym \in SymbolSamples }
  \cup { kw \o <<" ">> \o sym \o <<" ">> \o n :
      kw \in { <<"f","u","n","c","t","i","o","n">>, <<"c","a","l","l">> }, sym \in SymbolSamples, n \in { <<"0">>, <<"2">> } }

OneTokenLines ==
  ArithmeticNames
  \cup { <<"x","o","r">>, <<"a","b","c","d">>, <<"a","b","c","d","e">>, <<"n","e","g","a","t","e">>, <<"l","a","b","e","l","x">>, <<"r","e","t","u","r","n">>, <<"r","e","t","u","r","n","x">>,
         <<"l","a","b","e","l">>, <<"g","o","t","o">>, <<"p","u","s","h">>, <<"f","u","n","c","t","i","o","n">> }

PushPopLines ==
  { <<"p","u","s","h"," ","c","o","n","s","t","a","n","t"," ","5">>, <<"p","o","p"," ","l","o","c","a","l"," ","0">>, <<"p","u","s","h"," ","s","t","a","t","i","c"," ","1","2">>, <<"p","o","p"," ","p","o","i","n","t","e","r"," ","1">>,
    <<"p","u","s","h"," ","c","o","n","s","t","a","n","t"," ","5"," ","e","x","t","r","a">>, <<"p","u","s","h"," "," ","c","o","n","s","t","a","n","t","\t","5">>, <<"p","u","s","h","c","o","n","s","t","a","n","t"," ","5">>,
    <<"p","s","h"," ","c","o","n","s","t","a","n","t"," ","3">>, <<"p","u","s","h"," ","c","o","n","s","t","a","n","t">>, <<"p","u","s","h"," ","c","o","n","s","t","a","n","t"," ","x">>, <<"p","u","s","h"," ","c","o","n","s","t","a","n","t"," ","-","1">>,
    <<"p","u","s","h"," ","c","o","n","s","t","a","n","t"," ","5","x">>, <<"p","u","s","h"," ","a","r","g","u","m","e","n","t"," ","2"," ","/","/"," ","s","e","c","o","n","d">>, <<" "," ","p","o","p"," ","t","e","m","p"," ","1"," "," ">>,
    <<"p","u","s","h"," ","v","e","r","y","l","o","n","g","s","e","g","m","e","n","t"," ","1">>, <<"p","o","p"," ","h","e","a","p"," ","0">> }

OtherLines ==
  { <<>>, <<" "," "," ">>, <<"/","/"," ","o","n","l","y"," ","a"," ","c","o","m","m","e","n","t">>, <<"l","a","b","e","l"," ","f","o","o"," ","b","a","r">>, <<"l","a","b","e","l","s"," ","f","o","o">>,
    <<"f","u","n","c","t","i","o","n"," ","f">>, <<"c","a","l","l"," ","f"," ","x">>, <<"f","u","n","c","t","i","o","n"," ","f"," ","2"," ","e","x","t","r","a">>, <<"g","o","t","o">>, <<"a","d","d"," ","s","u","b">>,
    <<"a","d","d"," ","/","/"," ","s","u","m">>, <<"/"," ","a","d","d">> }

SourceLines == SymbolLines \cup OneTokenLines \cup PushPopLines \cup OtherLines

RECURSIVE Repeat(_, _)
Repeat(t, n) == IF n = 0 THEN <<>> ELSE t \o Repeat(t, n - 1)

\* a comment line longer than CURRENT_LINE_MAX_LENGTH
LongComment == <<"/","/"," ">> \o Repeat(<<"w","o","r","d"," ">>, 52)

\* a comment line that ends CURRENT_LINE_MAX_LENGTH characters before "add"
LongRemark == <<"/","/"," ","x","y","z">> \o Repeat(<<"w","o","r","d"," ">>, 50) \o <<"a","d","d">>

SourceFiles ==
  { l \o <<NL>> : l \in SourceLines }
  \cup { LongRemark \o <<"\n","s","u","b","\n">>, <<" "," "," ","a","d","d"," "," ","\n">> }
  \cup { LongComment \o <<"\n","a","d","d","\n">>, <<"\n","/","/"," ","x","\n","a","d","d","\n","\n","p","s","h"," ","c","o","n","s","t","a","n","t"," ","3","\n","s","u","b","\n">>,
         <<"p","u","s","h"," ","c","o","n","s","t","a","n","t"," ","1","\n","a","d","d"," ","s","u","b","\n">>, <<"l","a","b","e","l"," ","a","\n","l","a","b","e","l"," ","1","x","\n">>,
         <<"p","u","s","h"," ","c","o","n","s","t","a","n","t"," ","1","\n","p","u","s","h"," ","c","o","n","s","t","a","n","t","\n">>, <<"p","o","p"," ","l","o","c","a","l"," ","2","\n","p","s","h"," ","c","o","n","s","t","a","n","t"," ","3">> }
  \cup { <<"a","d","d">>, <<"p","u","s","h"," ","c","o","n","s","t","a","n","t"," ","1","\n","p","o","p"," ","l","o","c","a","l"," ","0">>, <<"/","/"," ","h","e","a","d","e","r","\n","\n","a","d","d","\n">>,
         <<"a","d","d","\n","\n","/","/"," ","e","n","d">>, <<"p","s","h"," ","c","o","n","s","t","a","n","t"," ","3","\n","p","u","s","h"," ","c","o","n","s","t","a","n","t"," ","3","\n">>,
         <<" "," ","p","u","s","h"," ","c","o","n","s","t","a","n","t"," ","1"," ","/","/"," ","o","n","e","\n","\t","\n","p","o","p"," ","l","o","c","a","l"," ","0","\n">>, <<"\n","\n","l","a","b","e","l"," ","a","\n"," "," "," ">>,
         <<>> }

\* what may lie in memory behind arg1, up to the next NUL
BehindBytes == { <<>>, <<"J">>, <<"?","#">> }

\* the array parser_arg1 is given by the driver for a command of this type
Arg1OutputSize(type) ==
  IF type = C_ARITHMETIC THEN PARSED_COMMAND_INSTRUCTION_MAX_LENGTH + 1
  ELSE IF type \in {C_PUSH, C_POP} THEN PARSED_COMMAND_ARG1_MAX_LENGTH + 1
  ELSE PARSED_COMMAND_LABEL_MAX_LENGTH + 1

NoWriter ==
  /\ output = <<>> /\ input_file = <<>> /\ boolean_op_count = 0
  /\ status = CODE_WRITER_SUCC /\ ncalls = 0 /\ units = <<>> /\ unit = <<>>
  /\ emitted = <<>>

InitParser ==
  /\ strcpy_overlap \in StrcpyOutcomes
  /\ \E file \in SourceFiles : src_parser = parser_init(file)
  /\ advanced = "none"
  /\ diagnostic = 0
  /\ line_in = <<>>
  /\ arg1_out = <<>>
  /\ arg1_read = FALSE
  /\ NoWriter
  /\ NoCpu
  /\ NoSite
  /\ NoRun

ParserAdvance ==
  /\ parser_has_more_lines(src_parser)
  /\ LET r == parser_advance(src_parser)
     IN /\ src_parser' = r.parser
        /\ advanced' = IF r.ret THEN "true" ELSE "false"
        /\ diagnostic' = r.diagnostic
        /\ line_in' = ReadCommandLine(src_parser.file, src_parser.pos,
                                      src_parser.input_file_line).line
  /\ arg1_out' = <<>>
  /\ arg1_read' = FALSE
  /\ UNCHANGED strcpy_overlap
  /\ UNCHANGED writerVars
  /\ UNCHANGED genVars
  /\ UNCHANGED cpuVars
  /\ UNCHANGED site
  /\ UNCHANGED runVars

ParserArg1 ==
  /\ advanced = "true"
  /\ parser_command_type(src_parser) # C_RETURN
  /\ ~arg1_read
  /\ \E behind \in BehindBytes :
       arg1_out' = CStr(parser_arg1(src_parser,
                                    Arg1OutputSize(parser_command_type(src_parser)),
                                    behind))
  /\ arg1_read' = TRUE
  /\ UNCHANGED <<src_parser, advanced, diagnostic, line_in, strcpy_overlap>>
  /\ UNCHANGED writerVars
  /\ UNCHANGED genVars
  /\ UNCHANGED cpuVars
  /\ UNCHANGED site
  /\ UNCHANGED runVars

NextParser == ParserAdvance \/ ParserArg1

SpecParser == InitParser /\ [][NextParser]_vars

\* the words of a line: its runs of characters that are no white space
RECURSIVE Tokens(_)
Tokens(s) ==
  LET i == SkipSpace(s, 1)
      e == TokenEnd(s, i, Len(s))
  IN IF i > Len(s) THEN <<>>
     ELSE <<SubSeq(s, i, e - 1)>> \o Tokens(SubSeq(s, e, Len(s)))

\* a symbol as the grammar has it
IsSymbol(t) ==
  /\ t # <<>>
  /\ ~IsDigit(t[1])
  /\ \A i \in 1..Len(t) : IsAlnum(t[i]) \/ t[i] \in { "_", ".", "$", ":" }

IsLabelForm(t) ==
  Len(t) = 2 /\ t[1] \in { <<"l","a","b","e","l">>, <<"g","o","t","o">>, <<"i","f","-","g","o","t","o">> } /\ IsSymbol(t[2])

IsFunctionForm(t) ==
  Len(t) = 3 /\ t[1] \in { <<"f","u","n","c","t","i","o","n">>, <<"c","a","l","l">> } /\ IsSymbol(t[2]) /\ AllDigits(t[3])

IsPushPopForm(t) ==
  Len(t) = 3 /\ t[1] \in { <<"p","u","s","h">>, <<"p","o","p">> } /\ AllDigits(t[3])

IsCommandForm(t) ==
  Len(t) = 1 \/ IsLabelForm(t) \/ IsFunctionForm(t) \/ IsPushPopForm(t)

\* parser_advance took a command line from the file
TookLine == advanced # "none" /\ line_in # <<>>

\* C8: after parser_advance succeeds on a Label, Goto, IfGoto, Function or
\* Call line, parser_arg1 returns the full symbol written on the line.
C8_PrimaryArgIsFullSymbol ==
  ( /\ TookLine /\ advanced = "true" /\ arg1_read
    /\ (IsLabelForm(Tokens(line_in)) \/ IsFunctionForm(Tokens(line_in))) )
  => arg1_out = Tokens(line_in)[2]

\* C9: a line is classified Push or Pop exactly when it is three words, the
\* first push or pop and the third a non-negative integer; a line of none of
\* the nine forms fails with a syntax error.
C9_PushPopExactlyThreeTokens ==
  TookLine =>
    /\ (advanced = "true" /\ parser_command_type(src_parser) \in {C_PUSH, C_POP})
         <=> IsPushPopForm(Tokens(line_in))
    /\ ~IsCommandForm(Tokens(line_in)) => (advanced = "false" /\ diagnostic # 0)

\* C10: a line of one word other than return is Arithmetic and the primary
\* argument is the whole word.
C10_OneTokenIsArithmetic ==
  ( /\ TookLine /\ Len(Tokens(line_in)) = 1 /\ line_in # <<"r","e","t","u","r","n">> )
  => /\ advanced = "true"
     /\ parser_command_type(src_parser) = C_ARITHMETIC
     /\ CStr(src_parser.current_command.arg1) = line_in

\* a line of the form of a Label, Goto, IfGoto, Function or Call command,
\* whatever its symbol
IsSymbolLine(t) ==
  \/ Len(t) = 2 /\ t[1] \in { <<"l","a","b","e","l">>, <<"g","o","t","o">>, <<"i","f","-","g","o","t","o">> }
  \/ Len(t) = 3 /\ t[1] \in { <<"f","u","n","c","t","i","o","n">>, <<"c","a","l","l">> } /\ AllDigits(t[3])

\* C11: a Label, Goto, IfGoto, Function or Call line is accepted exactly
\* when its symbol is a non-empty sequence of letters, digits, _ . $ : that
\* does not start with a digit; otherwise it fails with a syntax error.
C11_SymbolRule ==
  (TookLine /\ IsSymbolLine(Tokens(line_in))) =>
    /\ advanced = "true" <=> IsSymbol(Tokens(line_in)[2])
    /\ ~IsSymbol(Tokens(line_in)[2]) => (advanced = "false" /\ diagnostic # 0)

\* the number of line feeds among the first n characters of a file
LineFeeds(file, n) == Cardinality({ i \in 1..n : file[i] = NL })

\* the 1-based number of the physical line that holds character n of a file
PhysicalLine(file, n) == LineFeeds(file, n - 1) + 1

\* C12: when parser_advance fails on a malformed line, the diagnostic has the
\* 1-based physical line number of that line, parser_get_line_number returns
\* the same number, and the current command is what it was before the call.
C12_FailureKeepsCommand ==
  [][ (advanced' = "false" /\ diagnostic' # 0) =>
        /\ diagnostic' = PhysicalLine(src_parser'.file, src_parser'.pos)
        /\ parser_get_line_number(src_parser') = diagnostic'
        /\ src_parser'.current_command = src_parser.current_command ]_vars

(***************************************************************************)
(* Function, Call and Return.  code_writer.h declares                      *)
(* code_writer_write_function, code_writer_write_call and                  *)
(* code_writer_write_return and translate_file calls them                  *)
(* (vmtranslator.c:130-170); their bodies are the protocols of the         *)
(* specification, given here by their effect on the target machine's       *)
(* memory, one operator per protocol step.                                 *)
(***************************************************************************)
SP == 0
LCL == 1
ARG == 2
THIS == 3
THAT == 4
\* the scratch cell of Call step 1 and of Return step 4
Scratch == 13

PushWord(m, v) ==
  WriteRam(WriteRam(m, ReadRam(m, SP), v), SP, (ReadRam(m, SP) + 1) % WordSize)

\* Call step 1: snapshot the stack pointer
CallSnapshot(m) == WriteRam(m, Scratch, ReadRam(m, SP))

\* Call step 2: push the address of the return-address label
CallPushReturnAddress(m, return_address) == PushWord(m, return_address)

CallSaveFrameReversed(m) ==
  PushWord(PushWord(PushWord(PushWord(m, ReadRam(m, THAT)), ReadRam(m, THIS)),
                    ReadRam(m, ARG)), ReadRam(m, LCL))

\* Call step 3: push local, argument, this, that, in that order
CallSaveFrame(m) ==
  PushWord(PushWord(PushWord(PushWord(m, ReadRam(m, LCL)), ReadRam(m, ARG)),
                    ReadRam(m, THIS)), ReadRam(m, THAT))

\* Call steps 4 and 5: the callee's local and argument bases
CallSetBases(m, n_args) ==
  WriteRam(WriteRam(m, LCL, ReadRam(m, SP)),
           ARG, (ReadRam(m, Scratch) - n_args + WordSize) % WordSize)

\* Call steps 1 to 5; step 6 jumps to the function
code_writer_write_call(m, n_args, return_address) ==
  CallSetBases(CallSaveFrame(CallPushReturnAddress(CallSnapshot(m),
                                                   return_address)), n_args)

\* Function: n_vars pushes of the literal 0
RECURSIVE code_writer_write_function(_, _)
code_writer_write_function(m, n_vars) ==
  IF n_vars = 0 THEN m
  ELSE code_writer_write_function(PushWord(m, 0), n_vars - 1)

\* Return steps 1 and 2: pop the return value, store it at argument base + 0
ReturnStoreValue(m) ==
  LET top == (ReadRam(m, SP) - 1 + WordSize) % WordSize
      m1 == WriteRam(m, SP, top)
  IN WriteRam(m1, ReadRam(m1, ARG), ReadRam(m1, top))

\* Return step 3: the stack pointer is argument base + 1
ReturnSetSp(m) == WriteRam(m, SP, (ReadRam(m, ARG) + 1) % WordSize)

\* Return step 4: the callee's local base is the frame pointer
ReturnLoadFrame(m) == WriteRam(m, Scratch, ReadRam(m, LCL))

FrameSlot(m, k) == ReadRam(m, (ReadRam(m, Scratch) - k + WordSize) % WordSize)

\* Return step 5: restore that, this, argument, local, walking backward
ReturnRestore(m) ==
  LET m1 == WriteRam(m, THAT, FrameSlot(m, 1))
      m2 == WriteRam(m1, THIS, FrameSlot(m1, 2))
      m3 == WriteRam(m2, ARG, FrameSlot(m2, 3))
  IN WriteRam(m3, LCL, FrameSlot(m3, 4))

\* Return steps 1 to 5, and the address step 6 jumps to
code_writer_write_return(m) ==
  LET m5 == ReturnRestore(ReturnLoadFrame(ReturnSetSp(ReturnStoreValue(m))))
  IN [ram |-> m5, target |-> FrameSlot(m5, 5)]

(***************************************************************************)
(* SpecCall: a caller with words on its stack calls a function with n_args *)
(* of them as arguments; the function reserves n_vars locals, runs a body  *)
(* that leaves a return value on the stack, and returns.                   *)
(***************************************************************************)
MaxArgs == 2
MaxVars == 2

\* where the call's return-address label and the function's label lie
ReturnAddress == 21
FunctionAddress == 40

ReturnValues == { 0, 5, 65535 }

\* the caller's memory: MaxArgs + 1 words on the stack
CallerRam ==
  [a \in (0..4) \cup (StackBase..(StackBase + MaxArgs)) |->
     CASE a = SP -> StackBase + MaxArgs + 1
       [] a = LCL -> LclBase
       [] a = ARG -> ArgBase
       [] a = THIS -> ThisBase
       [] a = THAT -> ThatBase
       [] OTHER -> a + 1000]

InitCall ==
  /\ \E n_args \in 0..MaxArgs, n_vars \in 0..MaxVars, value \in ReturnValues,
        retargets \in BOOLEAN :
       site = [n_args |-> n_args, n_vars |-> n_vars, value |-> value,
               retargets |-> retargets, before |-> <<>>]
  /\ ram = CallerRam
  /\ ram0 = CallerRam
  /\ pc = 0
  /\ phase = "caller"
  /\ prog = <<>> /\ rom = <<>> /\ regA = 0 /\ regD = 0
  /\ NoWriter
  /\ NoParser
  /\ NoRun

Others == <<prog, rom, regA, regD, ram0>>

\* the caller executes the code of Call(f, n_args)
ExecCall ==
  /\ phase = "caller"
  /\ site' = [site EXCEPT !.before = [a \in SP..THAT |-> ReadRam(ram, a)]]
  /\ ram' = code_writer_write_call(ram, site.n_args, ReturnAddress)
  /\ pc' = FunctionAddress
  /\ phase' = "entered"
  /\ UNCHANGED Others
  /\ UNCHANGED writerVars
  /\ UNCHANGED genVars
  /\ UNCHANGED parserVars
  /\ UNCHANGED runVars

\* the callee executes the code of Function(f, n_vars)
ExecFunction ==
  /\ phase = "entered"
  /\ ram' = code_writer_write_function(ram, site.n_vars)
  /\ phase' = "body"
  /\ UNCHANGED <<site, pc>>
  /\ UNCHANGED Others
  /\ UNCHANGED writerVars
  /\ UNCHANGED genVars
  /\ UNCHANGED parserVars
  /\ UNCHANGED runVars

\* the callee's body: it may point this and that at its own object, and it
\* leaves its return value on the stack
ExecBody ==
  /\ phase = "body"
  /\ LET m1 == IF site.retargets
               THEN WriteRam(WriteRam(ram, THIS, ThisBase + 100), THAT, ThatBase + 100)
               ELSE ram
     IN ram' = PushWord(m1, site.value)
  /\ phase' = "ready"
  /\ UNCHANGED <<site, pc>>
  /\ UNCHANGED Others
  /\ UNCHANGED writerVars
  /\ UNCHANGED genVars
  /\ UNCHANGED parserVars
  /\ UNCHANGED runVars

\* the callee executes the code of Return; a function with locals may return
\* at once, its last local being the return value
ExecReturn ==
  /\ phase = "ready" \/ (phase = "body" /\ site.n_vars > 0)
  /\ LET r == code_writer_write_return(ram)
     IN /\ ram' = r.ram
        /\ pc' = r.target
  /\ phase' = "returned"
  /\ UNCHANGED site
  /\ UNCHANGED Others
  /\ UNCHANGED writerVars
  /\ UNCHANGED genVars
  /\ UNCHANGED parserVars
  /\ UNCHANGED runVars

NextCall == ExecCall \/ ExecFunction \/ ExecBody \/ ExecReturn

SpecCall == InitCall /\ [][NextCall]_vars

\* C5: after the Return that matches a Call(f, n), local, argument, this and
\* that are what they were just before the Call, and the stack pointer is the
\* one before the Call minus n plus 1.
C5_FrameRestored ==
  phase = "returned" =>
    /\ \A a \in LCL..THAT : ReadRam(ram, a) = site.before[a]
    /\ ReadRam(ram, SP) = site.before[SP] - site.n_args + 1

\* C5 witness: a call with arguments has returned from a function that had
\* pointed this and that elsewhere.
C5_Witness ==
  /\ phase = "returned" /\ site.n_args = MaxArgs /\ site.retargets
  /\ ReadRam(ram, THIS) = ThisBase

\* C6: the Return that matches a Call(f, n), n = 0 included, transfers
\* control to the return-address label of that Call.
C6_ReturnsToCallSite ==
  phase = "returned" => pc = ReturnAddress

(***************************************************************************)
(* translate_file and main (vmtranslator.c).  The environment of a run is  *)
(* the argument count, what stat and scandir answer, whether the output    *)
(* file can be created, and the contents of the source files.              *)
(***************************************************************************)
VM_EXTENSION == <<"v","m">>

\* the index of the last "." of a name, 1 when there is none before it
RECURSIVE LastDot(_, _)
LastDot(filename, end) ==
  IF end # 1 /\ filename[end] # "." THEN LastDot(filename, end - 1) ELSE end

check_file_extension(filename) ==
  LET end == LastDot(filename, Len(filename))
  IN end # 1 /\ SubSeq(filename, end + 1, Len(filename)) = VM_EXTENSION

\* scandir's filter: regular files with the .vm extension
filter_vm_files(entry) == entry.regular /\ check_file_extension(entry.name)

\* a source file that fopen cannot open
Unreadable == <<"unreadable">>

SyntaxReport(input_file_name, line) ==
  [unit |-> input_file_name, kind |-> "syntax", line |-> line, err |-> ""]

GeneratorReport(input_file_name, line, err) ==
  [unit |-> input_file_name, kind |-> "generator", line |-> line, err |-> err]

\* the loop state of translate_file: done when it has returned, ret its value
LoopState(parser, writer, input_file_name) ==
  [parser |-> parser, writer |-> writer, unit |-> input_file_name,
   reports |-> <<>>, calls |-> <<>>, done |-> FALSE, ret |-> TRUE]

\* the switch over the command type: the generator call for the command
CommandCall(parser) ==
  IF parser_command_type(parser) = C_ARITHMETIC
  THEN ArithmeticCall(CStr(parser_arg1(parser,
         PARSED_COMMAND_INSTRUCTION_MAX_LENGTH + 1, <<>>)))
  ELSE PushPopCall(parser_command_type(parser),
         CStr(parser_arg1(parser, PARSED_COMMAND_ARG1_MAX_LENGTH + 1, <<>>)),
         parser_arg2(parser))

\* the log record of a generator call that returned r
CallRecord(st, parser, call, r) ==
  [unit |-> st.unit, call |-> call, status |-> r.status,
   count |-> st.writer.boolean_op_count,
   line |-> parser_get_line_number(parser),
   text |-> SubSeq(r.writer.output_file, Len(st.writer.output_file) + 1,
                   Len(r.writer.output_file))]

\* after the generator call: a failure ends translate_file with false
AfterCall(st, parser, call, r) ==
  IF r.status # CODE_WRITER_SUCC
  THEN [st EXCEPT !.parser = parser, !.writer = r.writer,
                  !.calls = Append(@, CallRecord(st, parser, call, r)),
                  !.reports = Append(@, GeneratorReport(st.unit,
                                parser_get_line_number(parser), r.status)),
                  !.done = TRUE, !.ret = FALSE]
  ELSE [st EXCEPT !.parser = parser, !.writer = r.writer,
                  !.calls = Append(@, CallRecord(st, parser, call, r))]

GenerateCall(st, parser, call) ==
  AfterCall(st, parser, call, Dispatch(st.writer, call))

TranslateCommand(st, parser) == GenerateCall(st, parser, CommandCall(parser))

\* if (!parser_advance(parser)) continue; a is what parser_advance returned
AfterAdvance(st, a) ==
  IF ~a.ret
  THEN [st EXCEPT !.parser = a.parser,
                  !.reports = IF a.diagnostic # 0
                              THEN Append(@, SyntaxReport(st.unit, a.diagnostic))
                              ELSE @]
  ELSE TranslateCommand(st, a.parser)

\* one turn of the loop of translate_file
TranslateLine(st) == AfterAdvance(st, parser_advance(st.parser))

RECURSIVE TranslateLoop(_)
TranslateLoop(st) ==
  IF st.done \/ ~parser_has_more_lines(st.parser) THEN st
  ELSE TranslateLoop(TranslateLine(st))

\* translate_file(writer, input_file): file is the content of input_file
translate_file(writer, input_file_name, file) ==
  IF file = Unreadable
  THEN [LoopState(parser_init(<<>>), writer, input_file_name) EXCEPT
          !.reports = << [unit |-> input_file_name, kind |-> "io", line |-> 0,
                          err |-> "parser_init"] >>,
          !.done = TRUE, !.ret = FALSE]
  ELSE LET w == code_writer_set_filename(writer, input_file_name)
       IN IF w.status # CODE_WRITER_SUCC
          THEN [LoopState(parser_init(file), w.writer, input_file_name) EXCEPT
                  !.done = TRUE, !.ret = FALSE]
          ELSE TranslateLoop(LoopState(parser_init(file), w.writer, input_file_name))

(***************************************************************************)
(* SpecRun: one run of main.  The source units hold arithmetic, push and   *)
(* pop commands, malformed lines, comments and blank lines; the generator  *)
(* entry points of the other command types have no body in code_writer.c.  *)
(***************************************************************************)
MaxLines == 2

RunLines ==
  { <<"p","u","s","h"," ","c","o","n","s","t","a","n","t"," ","7">>, <<"e","q">>, <<"a","d","d">>, <<"p","s","h"," ","c","o","n","s","t","a","n","t"," ","3">>, <<"p","o","p"," ","c","o","n","s","t","a","n","t"," ","1">>,
    <<"/","/"," ","n","o","t","e">>, <<>> }

RECURSIVE FilesOf(_)
FilesOf(n) ==
  IF n = 0 THEN { <<>> }
  ELSE FilesOf(n - 1)
       \cup { f \o l \o <<NL>> : f \in FilesOf(n - 1), l \in RunLines }

\* a malformed line longer than CURRENT_LINE_MAX_LENGTH
LongMalformed == <<"p","s","h"," ","c","o","n","s","t","a","n","t"," ","3","0"," ">> \o Repeat(<<"w","o","r","d"," ">>, 48) \o <<"a","d","d">>

RunFiles == FilesOf(MaxLines) \cup { LongMalformed \o <<NL>> }

OtherFiles == { <<"l","t","\n">>, <<"p","u","s","h"," ","s","t","a","t","i","c"," ","1","\n","n","e","g","a","t","e","\n">>, <<"p","u","s","h"," ","h","e","a","p"," ","0","\n">>, Unreadable }

UnitNames == { <<"A",".","v","m">>, <<"B",".","v","m">> }

FileSystems ==
  { [n \in UnitNames |-> IF n = <<"A",".","v","m">> THEN a ELSE b] :
      a \in RunFiles, b \in OtherFiles }

DefaultFiles == [n \in UnitNames |-> <<"a","d","d","\n">>]

Entry(name, regular) == [name |-> name, regular |-> regular]

\* the contents of the directory, in the order scandir lists them
EntryLists ==
  { << Entry(<<"A",".","v","m">>, TRUE) >>,
    << Entry(<<"A",".","v","m">>, TRUE), Entry(<<"B",".","v","m">>, TRUE) >>,
    << Entry(<<"B",".","v","m">>, TRUE), Entry(<<"A",".","v","m">>, TRUE) >>,
    << Entry(<<"n","o","t","e","s",".","t","x","t">>, TRUE), Entry(<<"A",".","v","m">>, TRUE), Entry(<<"s","u","b",".","v","m">>, FALSE) >> }

Environment(argc, stat, path, scan_ok, entries, writer_ok) ==
  [argc |-> argc, stat |-> stat, path |-> path, scan_ok |-> scan_ok,
   entries |-> entries, writer_ok |-> writer_ok]

\* runs in which main reaches translate_file
NormalEnvironments ==
  { Environment(2, "dir", <<"d","i","r">>, TRUE, e, TRUE) : e \in EntryLists }
  \cup { Environment(2, "file", <<"A",".","v","m">>, TRUE, <<>>, TRUE) }

\* runs that end before: usage and I/O errors
ErrorEnvironments ==
  { Environment(1, "none", <<>>, TRUE, <<>>, TRUE),
    Environment(3, "file", <<"A",".","v","m">>, TRUE, <<>>, TRUE),
    Environment(2, "fail", <<"A",".","v","m">>, TRUE, <<>>, TRUE),
    Environment(2, "other", <<"A",".","v","m">>, TRUE, <<>>, TRUE),
    Environment(2, "dir", <<"d","i","r">>, FALSE, <<>>, TRUE),
    Environment(2, "dir", <<"d","i","r">>, TRUE, << Entry(<<"n","o","t","e","s",".","t","x","t">>, TRUE) >>, TRUE),
    Environment(2, "dir", <<"d","i","r">>, TRUE, << Entry(<<"A",".","v","m">>, TRUE) >>, FALSE),
    Environment(2, "file", <<"A",".","t","x","t">>, TRUE, <<>>, TRUE),
    Environment(2, "file", <<"A",".","v","m">>, TRUE, <<>>, FALSE) }

\* scandir(argv[1], &dir_entries, filter_vm_files, NULL): the names kept
ScanDir(entries) ==
  LET kept == SelectSeq(entries, filter_vm_files)
  IN [i \in 1..Len(kept) |-> kept[i].name]

InitRun ==
  /\ \/ env \in NormalEnvironments /\ fs \in FileSystems
     \/ env \in ErrorEnvironments /\ fs = DefaultFiles
  /\ exit_code = -1
  /\ reports = <<>>
  /\ sink = "accepts"
  /\ context = NoContext
  /\ output = <<>> /\ input_file = <<>> /\ boolean_op_count = 0
  /\ status = CODE_WRITER_SUCC /\ ncalls = 0 /\ units = <<>> /\ unit = <<>>
  /\ emitted = <<>>
  /\ prog = <<>> /\ phase = "main" /\ rom = <<>> /\ pc = 0
  /\ regA = 0 /\ regD = 0 /\ ram = <<>> /\ ram0 = <<>>
  /\ ParserIdle
  /\ strcpy_overlap \in StrcpyOutcomes
  /\ NoSite

RunRest == <<ncalls, prog, rom, pc, regA, regD, ram, ram0, sink, context>>

\* main returns 1 after printing a message
Exit1(kind) ==
  /\ exit_code' = 1
  /\ phase' = "exit"
  /\ reports' = Append(reports, [unit |-> <<>>, kind |-> kind, line |-> 0, err |-> ""])
  /\ UNCHANGED <<output, input_file, boolean_op_count, status, units, unit, emitted>>

\* code_writer_init("source.asm") succeeded; the units to translate
Created(names) ==
  /\ output' = code_writer_init.output_file
  /\ input_file' = code_writer_init.input_file
  /\ boolean_op_count' = code_writer_init.boolean_op_count
  /\ units' = names
  /\ UNCHANGED <<exit_code, reports, status, unit, emitted>>

\* main from its first line to the first call of translate_file
MainArguments ==
  /\ phase = "main"
  /\ IF env.argc # 2 THEN Exit1("usage")
     ELSE IF env.stat = "fail" THEN Exit1("io")
     ELSE IF env.stat = "dir"
     THEN IF ~env.scan_ok \/ ScanDir(env.entries) = <<>> THEN Exit1("io")
          ELSE IF ~env.writer_ok THEN Exit1("io")
          ELSE Created(ScanDir(env.entries)) /\ phase' = "dir"
     ELSE IF env.stat = "file"
     THEN IF ~check_file_extension(env.path) THEN Exit1("usage")
          ELSE IF ~env.writer_ok THEN Exit1("io")
          ELSE Created(<<env.path>>) /\ phase' = "file"
     ELSE Exit1("usage")
  /\ UNCHANGED <<env, fs>>
  /\ UNCHANGED RunRest
  /\ UNCHANGED parserVars
  /\ UNCHANGED site

\* what a call of translate_file leaves behind
Translated(r) ==
  /\ output' = r.writer.output_file
  /\ input_file' = r.writer.input_file
  /\ boolean_op_count' = r.writer.boolean_op_count
  /\ status' = IF r.calls = <<>> THEN status ELSE r.calls[Len(r.calls)].status
  /\ emitted' = emitted \o r.calls
  /\ reports' = reports \o r.reports
  /\ src_parser' = r.parser
  /\ unit' = Head(units)
  /\ units' = Tail(units)
  /\ UNCHANGED <<advanced, diagnostic, line_in, arg1_out, arg1_read, strcpy_overlap>>

\* the directory loop: translate_file on the next entry; a failure ends the
\* run with 1
TranslateEntry ==
  /\ phase = "dir"
  /\ units # <<>>
  /\ LET r == translate_file(Writer, Head(units), fs[Head(units)])
     IN /\ Translated(r)
        /\ IF r.ret THEN UNCHANGED <<phase, exit_code>>
           ELSE phase' = "exit" /\ exit_code' = 1
  /\ UNCHANGED <<env, fs>>
  /\ UNCHANGED RunRest
  /\ UNCHANGED site

\* the directory loop is over: the writer is closed, main returns 0
Finish ==
  /\ phase = "dir"
  /\ units = <<>>
  /\ phase' = "exit"
  /\ exit_code' = 0
  /\ UNCHANGED <<env, fs, reports>>
  /\ UNCHANGED writerVars
  /\ UNCHANGED genVars
  /\ UNCHANGED RunRest
  /\ UNCHANGED parserVars
  /\ UNCHANGED site

\* a single file: translate_file on it, then main returns
TranslateSingle ==
  /\ phase = "file"
  /\ LET r == translate_file(Writer, Head(units), fs[Head(units)])
     IN /\ Translated(r)
        /\ exit_code' = IF r.ret THEN 0 ELSE 1
  /\ phase' = "exit"
  /\ UNCHANGED <<env, fs>>
  /\ UNCHANGED RunRest
  /\ UNCHANGED site

NextRun == MainArguments \/ TranslateEntry \/ Finish \/ TranslateSingle

SpecRun == InitRun /\ [][NextRun]_vars

(***************************************************************************)
(* The run against its source text.                                        *)
(***************************************************************************)
\* the units main translates, in order, and those translate_file was called for
AllUnits == IF env.stat = "dir" THEN ScanDir(env.entries) ELSE <<env.path>>

UnitsDone == SubSeq(AllUnits, 1, Len(AllUnits) - Len(units))

\* translate_file was called at least once and main has returned
RunEnded == phase = "exit" /\ unit # <<>>

\* a line the parser reports as a syntax error
IsMalformed(l) == parser_advance(parser_init(l \o <<NL>>)).diagnostic # 0

RECURSIVE JoinLines(_)
JoinLines(ls) ==
  IF ls = <<>> THEN <<>> ELSE Head(ls) \o <<NL>> \o JoinLines(Tail(ls))

IsKept(l) == ~IsMalformed(l)

DeleteMalformed(file) ==
  IF file = Unreadable THEN file
  ELSE JoinLines(SelectSeq(SplitLines(file), IsKept))

WithoutMalformed == [n \in DOMAIN fs |-> DeleteMalformed(fs[n])]

\* the loop of main over the units: the writer after it
NextUnits(r, names, files, Rest(_, _, _)) ==
  IF r.ret THEN Rest(r.writer, Tail(names), files) ELSE r.writer

RECURSIVE TranslateUnits(_, _, _)
TranslateUnits(writer, names, files) ==
  IF names = <<>> THEN writer
  ELSE NextUnits(translate_file(writer, Head(names), files[Head(names)]),
                 names, files, TranslateUnits)

\* the generator call was made for a line of its unit that is not malformed
CallForGoodLine(i) ==
  /\ emitted[i].line \in DOMAIN SplitLines(fs[emitted[i].unit])
  /\ ~IsMalformed(SplitLines(fs[emitted[i].unit])[emitted[i].line])

\* C13: a malformed line is skipped without touching the generator: no
\* generator call is made for it, and when main has returned the output and
\* the boolean counter are those of the same run over the units with their
\* malformed lines deleted.
C13_MalformedLinesSkipped ==
  RunEnded =>
    /\ \A i \in DOMAIN emitted : CallForGoodLine(i)
    /\ output = TranslateUnits(code_writer_init, UnitsDone, WithoutMalformed).output_file
    /\ boolean_op_count =
         TranslateUnits(code_writer_init, UnitsDone, WithoutMalformed).boolean_op_count

\* a line that holds a command the generator accepts
GeneratorAccepts(writer, a) ==
  a.ret /\ Dispatch(writer, CommandCall(a.parser)).status = CODE_WRITER_SUCC

IsWellFormed(l) ==
  GeneratorAccepts(code_writer_init, parser_advance(parser_init(l \o <<NL>>)))

\* the command of line k of the unit was translated and is part of the output
TranslatedLine(u, k) ==
  \E j \in DOMAIN emitted :
    /\ emitted[j].unit = u /\ emitted[j].line = k /\ Succeeded(j)
    /\ emitted[j].text # <<>>

\* C14: after a generator failure only the failing command is discarded:
\* every later well-formed command of the unit is translated.
C14_GeneratorFailureDiscardsOneCommand ==
  RunEnded =>
    \A i \in DOMAIN emitted :
      ~Succeeded(i) =>
        \A k \in (emitted[i].line + 1)..Len(SplitLines(fs[emitted[i].unit])) :
          IsWellFormed(SplitLines(fs[emitted[i].unit])[k])
            => TranslatedLine(emitted[i].unit, k)

IsBlank(l) == Trim(StripComment(l)) = <<>>

\* every nonblank line of every unit was translated
FullSuccess ==
  \A u \in { AllUnits[i] : i \in DOMAIN AllUnits } :
    /\ fs[u] # Unreadable
    /\ \A k \in DOMAIN SplitLines(fs[u]) :
         IsBlank(SplitLines(fs[u])[k]) \/ TranslatedLine(u, k)

\* C15: main returns 0 only on full success, and 1 whenever an error was
\* reported (usage, I/O, syntax, generator).
C15_ExitCode ==
  phase = "exit" =>
    /\ exit_code \in {0, 1}
    /\ exit_code = 0 => (reports = <<>> /\ FullSuccess)
    /\ reports # <<>> => exit_code = 1

(***************************************************************************)
(* Push and pop on the storage segments, on the target machine             *)
(***************************************************************************)
Push(segment, i) == PushPopCall(C_PUSH, segment, i)

Pop(segment, i) == PushPopCall(C_POP, segment, i)

\* the program ran to its end and the generator accepted every command
RanValid(program) == Ran(program) /\ \A k \in DOMAIN emitted : Succeeded(k)

\* the cells whose value differs between two memories
Changed(m0, m1) ==
  { a \in DOMAIN m0 \cup DOMAIN m1 : ReadRam(m0, a) # ReadRam(m1, a) }

BasedSegments == { <<"t","h","i","s">>, <<"t","h","a","t">>, <<"a","r","g","u","m","e","n","t">>, <<"l","o","c","a","l">> }

\* the pointer cell of a segment
BaseCell(segment) ==
  CASE segment = <<"l","o","c","a","l">> -> 1
    [] segment = <<"a","r","g","u","m","e","n","t">> -> 2
    [] segment = <<"t","h","i","s">> -> 3
    [] segment = <<"t","h","a","t">> -> 4

\* the cell a valid push or pop addresses, in memory m
SegmentCell(m, segment, i) ==
  CASE segment \in BasedSegments -> ReadRam(m, BaseCell(segment)) + i
    [] segment = <<"p","o","i","n","t","e","r">> -> 3 + i
    [] segment = <<"t","e","m","p">> -> 5 + i
    [] segment = <<"s","t","a","t","i","c">> -> Resolve(rom, input_file \o <<".">> \o FormatD(i))

\* the scratch cells of Pop
ScratchCells == { 13, 14 }

\* C16 as stated: Push(segment, i) followed by Pop(segment, i) leaves every
\* memory location unchanged, scratch cells and every stack slot included.
C16_RoundTripChangesNothing ==
  \A segment \in StorageSegments, i \in ExecIndexes :
    RanValid(<<Push(segment, i), Pop(segment, i)>>) => Changed(ram0, ram) = {}

\* C16: Push(segment, i) followed by Pop(segment, i) leaves every memory
\* location unchanged except the scratch cells R13 and R14 and the stack
\* slot at the stack pointer: the stack pointer, the base pointers, the
\* stack below the stack pointer and the addressed cell keep their values.
C16_RoundTripKeepsMemory ==
  \A segment \in StorageSegments, i \in ExecIndexes :
    RanValid(<<Push(segment, i), Pop(segment, i)>>) =>
      /\ Changed(ram0, ram) \subseteq ScratchCells \cup { Sp(ram0) }
      /\ \A a \in 0..4 : ReadRam(ram, a) = ReadRam(ram0, a)
      /\ ReadRam(ram, SegmentCell(ram0, segment, i))
           = ReadRam(ram0, SegmentCell(ram0, segment, i))
      /\ SegmentCell(ram0, segment, i) \notin ScratchCells \cup { Sp(ram0) }

C16_Witness ==
  /\ RanValid(<<Push(<<"l","o","c","a","l">>, 1), Pop(<<"l","o","c","a","l">>, 1)>>)
  /\ ReadRam(ram0, 1) = LclBase + 16
  /\ Changed(ram0, ram) = ScratchCells \cup { Sp(ram0) }
  /\ ReadRam(ram, Sp(ram0)) = LclBase + 16 + 1 + 1000

\* C17: eq, gt and lt push exactly -1 or exactly 0 for every pair of
\* operands, and take the two operands off the stack.
C17_BooleanIsSentinel ==
  \A op \in { <<"e","q">>, <<"g","t">>, <<"l","t">> } :
    RanValid(<<ArithmeticCall(op)>>) =>
      /\ Top(ram) \in { 0, WordSize - 1 }
      /\ Sp(ram) = Sp(ram0) - 1

\* operands whose difference overflows
C17_Witness ==
  /\ RanValid(<<ArithmeticCall(<<"g","t">>)>>)
  /\ OperandX = 32767 /\ OperandY = 32768
  /\ Top(ram) \in { 0, WordSize - 1 }

\* C18: Push(segment, i) on this, that, argument, local pushes the value at
\* (value of the segment's pointer cell when the code runs) + i and changes
\* neither that cell nor the pointer cell.
C18_PushReadsThroughBase ==
  \A segment \in BasedSegments, i \in ExecIndexes :
    RanValid(<<Push(segment, i)>>) =>
      /\ Top(ram) = ReadRam(ram0, ReadRam(ram0, BaseCell(segment)) + i)
      /\ Sp(ram) = Sp(ram0) + 1
      /\ Changed(ram0, ram) = { 0, Sp(ram0) }

C18_Witness ==
  /\ RanValid(<<Push(<<"t","h","a","t">>, 7)>>)
  /\ ReadRam(ram0, 4) = ThatBase + 16
  /\ Top(ram) = ThatBase + 16 + 7 + 1000

\* C19: Pop(segment, i) on this, that, argument, local stores the old top of
\* the stack at base + i and decrements the stack pointer; the value is
\* held in R13 and the address in R14; the pointer cell is unchanged.
C19_PopStoresThroughBase ==
  \A segment \in BasedSegments, i \in ExecIndexes :
    RanValid(<<Pop(segment, i)>>) =>
      /\ ReadRam(ram, ReadRam(ram0, BaseCell(segment)) + i) = Top(ram0)
      /\ Sp(ram) = Sp(ram0) - 1
      /\ ReadRam(ram, BaseCell(segment)) = ReadRam(ram0, BaseCell(segment))
      /\ ReadRam(ram, 13) = Top(ram0)
      /\ ReadRam(ram, 14) = ReadRam(ram0, BaseCell(segment)) + i
      /\ Changed(ram0, ram) \subseteq
           { 0, 13, 14, ReadRam(ram0, BaseCell(segment)) + i }

C19_Witness ==
  /\ RanValid(<<Pop(<<"a","r","g","u","m","e","n","t">>, 1)>>)
  /\ ReadRam(ram0, 2) = ArgBase + 16
  /\ Top(ram0) = 32768
  /\ ReadRam(ram, ArgBase + 16 + 1) = 32768
  /\ ReadRam(ram, 13) = 32768 /\ ReadRam(ram, 14) = ArgBase + 16 + 1

\* the fixed cell of pointer i and of temp i
FixedCell(segment, i) == IF segment = <<"p","o","i","n","t","e","r">> THEN 3 + i ELSE 5 + i

\* the indexes the generator accepts for pointer and for temp
FixedIndexes(segment) == IF segment = <<"p","o","i","n","t","e","r">> THEN 0..1 ELSE 0..7

\* C20: push and pop on pointer i address cell 3 + i, on temp i cell 5 + i,
\* whatever the base pointers hold; no such cell is R13 or R14; an index
\* outside {0,1} for pointer, {0..7} for temp is refused.
C20_FixedCells ==
  \A segment \in { <<"p","o","i","n","t","e","r">>, <<"t","e","m","p">> }, i \in ExecIndexes :
    /\ Ran(<<Push(segment, i)>>) =>
         IF i \in FixedIndexes(segment)
         THEN /\ Succeeded(1)
              /\ Top(ram) = ReadRam(ram0, FixedCell(segment, i))
              /\ Changed(ram0, ram) = { 0, Sp(ram0) }
         ELSE ~Succeeded(1) /\ output = <<>>
    /\ Ran(<<Pop(segment, i)>>) =>
         IF i \in FixedIndexes(segment)
         THEN /\ Succeeded(1)
              /\ ReadRam(ram, FixedCell(segment, i)) = Top(ram0)
              /\ ReadRam(ram, 14) = FixedCell(segment, i)
              /\ Changed(ram0, ram) \subseteq { 0, 13, 14, FixedCell(segment, i) }
              /\ FixedCell(segment, i) \notin ScratchCells
         ELSE ~Succeeded(1) /\ output = <<>>

C20_Witness ==
  /\ RanValid(<<Pop(<<"t","e","m","p">>, 7)>>)
  /\ ReadRam(ram0, 1) = LclBase + 16
  /\ ReadRam(ram, 12) = Top(ram0)
  /\ ReadRam(ram, 14) = 12

(***************************************************************************)
(* The generator's refusals and its counter                                *)
(***************************************************************************)
IsPopConstant(i) ==
  emitted[i].call.kind = C_POP /\ emitted[i].call.arg1 = <<"c","o","n","s","t","a","n","t">>

DeliveredNext(a, Rest(_)) ==
  (IF a.ret THEN << a.parser.current_command >> ELSE <<>>) \o Rest(a.parser)

RECURSIVE Delivered(_)
Delivered(parser) ==
  IF ~parser_has_more_lines(parser) THEN <<>>
  ELSE DeliveredNext(parser_advance(parser), Delivered)

Bare(l) == Trim(StripComment(l))

RECURSIVE BareLines(_)
BareLines(ls) ==
  IF ls = <<>> THEN <<>>
  ELSE (IF Bare(Head(ls)) = <<>> THEN <<>> ELSE << Bare(Head(ls)) >>)
       \o BareLines(Tail(ls))

\* the unit with its comments, blank lines and surrounding white space removed
Uncommented(file) == JoinLines(BareLines(SplitLines(file)))

\* C22: the commands parser_advance delivers for a unit are those it
\* delivers for the unit without comments, blank lines and surrounding
\* white space; the current command is one of them.
C22_CommentsIgnored ==
  /\ Delivered(parser_init(src_parser.file))
       = Delivered(parser_init(Uncommented(src_parser.file)))
  /\ advanced = "true" =>
       \E k \in DOMAIN Delivered(parser_init(Uncommented(src_parser.file))) :
         Delivered(parser_init(Uncommented(src_parser.file)))[k]
           = src_parser.current_command

\* the call just logged was a comparison that succeeded
ComparisonLogged(log) ==
  /\ log[Len(log)].call.kind = C_ARITHMETIC
  /\ log[Len(log)].call.arg1 \in { <<"e","q">>, <<"g","t">>, <<"l","t">> }
  /\ log[Len(log)].status = CODE_WRITER_SUCC

\* one step of the writer, seen from the boolean counter
CounterStep ==
  /\ boolean_op_count' >= boolean_op_count
  /\ Len(emitted') = Len(emitted) => boolean_op_count' = boolean_op_count
  /\ Len(emitted') = Len(emitted) + 1 =>
       boolean_op_count' =
         boolean_op_count + (IF ComparisonLogged(emitted') THEN 1 ELSE 0)

\* C23: the boolean counter never decreases; a generator call increases it
\* by exactly one when it is an eq, gt or lt that succeeded and leaves it
\* alone otherwise (add, sub, neg, and, or, not, push, pop, refused calls);
\* beginning a new source unit leaves it alone.
C23_BooleanCounterMonotone == [][CounterStep]_vars

\* two comparisons counted, in two units, a refused call aside
C23_Witness ==
  /\ Len(emitted) = 2
  /\ IsComparison(1) /\ Succeeded(1) /\ IsComparison(2) /\ Succeeded(2)
  /\ emitted[1].unit # emitted[2].unit
  /\ emitted[1].count = 0 /\ emitted[2].count = 1
  /\ boolean_op_count = 2

(***************************************************************************)
(* SpecSink: the generator's calls of SpecGen on an output file that may   *)
(* stop taking what is written to it (a full disk, a closed pipe).         *)
(***************************************************************************)
SinkFails ==
  /\ sink = "accepts"
  /\ sink' = "rejects"
  /\ UNCHANGED <<env, fs, exit_code, reports, context>>
  /\ UNCHANGED writerVars
  /\ UNCHANGED genVars
  /\ UNCHANGED cpuVars
  /\ UNCHANGED parserVars
  /\ UNCHANGED site

NextSink == BeginUnit \/ GenArithmetic \/ GenPushPop \/ SinkFails

SpecSink == InitGen /\ [][NextSink]_vars

\* C24: when the output file rejects the write of a command's text the
\* entry point reports a failure: no call returns CODE_WRITER_SUCC for a
\* text that was not written.
C24_WriteFailureReported ==
  \A i \in 1..Len(emitted) : Succeeded(i) => emitted[i].text # <<>>

(***************************************************************************)
(* Label, goto, function and call as text.  Their bodies are not in        *)
(* code_writer.c; they follow the design document: the target symbol of    *)
(* label and goto (and if-goto, which jumps like goto after a pop) is      *)
(* built from the unit identifier, the name of the most recent function    *)
(* command and the label; the return-address label of a call is            *)
(* <context>.<callSiteCounter>.                                            *)
(***************************************************************************)
\* a target symbol built from the unit identifier and the label only
LabelSymbolUnitOnly(writer, ctx, label) ==
  writer.input_file \o <<"$">> \o label

LabelSymbol(writer, ctx, label) ==
  writer.input_file \o <<".">> \o ctx.function \o <<"$">> \o label

\* the return-address label of the next call without its counter
ReturnLabelNoCounter(writer, ctx) ==
  writer.input_file \o <<".">> \o ctx.function \o <<"$","r","e","t">>

ReturnLabel(writer, ctx) ==
  writer.input_file \o <<".">> \o ctx.function \o <<"$","r","e","t",".">> \o FormatD(ctx.calls)

\* the text goes to the output file; the status is that of the call
Appended(writer, ctx, text) ==
  [status |-> CODE_WRITER_SUCC,
   writer |-> [writer EXCEPT !.output_file = fwrite(text, @).file],
   context |-> ctx]

code_writer_write_label(writer, ctx, label) ==
  Appended(writer, ctx, <<"(">> \o LabelSymbol(writer, ctx, label) \o <<")","\n">>)

code_writer_write_goto(writer, ctx, label) ==
  Appended(writer, ctx, <<"@">> \o LabelSymbol(writer, ctx, label) \o <<"\n","0",";","J","M","P","\n">>)

\* n pushes of the literal 0
RECURSIVE PushZeros(_)
PushZeros(n) ==
  IF n = 0 THEN <<>> ELSE <<"@","S","P","\n","A","=","M","\n","M","=","0","\n","@","S","P","\n","M","=","M","+","1","\n">> \o PushZeros(n - 1)

\* the label of the function, then its zeroed locals; the function becomes
\* the current one
FunctionText(writer, ctx, function_name, n_vars) ==
  Appended(writer, [ctx EXCEPT !.function = function_name],
    <<"(">> \o function_name \o <<")","\n">> \o PushZeros(n_vars))

PushPointer(name) == <<"@">> \o name \o <<"\n","D","=","M","\n","@","S","P","\n","A","=","M","\n","M","=","D","\n","@","S","P","\n","M","=","M","+","1","\n">>

\* the call protocol, steps 1 to 8
CallText(writer, ctx, function_name, n_args) ==
  Appended(writer, [ctx EXCEPT !.calls = @ + 1],
    <<"@","S","P","\n","D","=","M","\n","@","R","1","3","\n","M","=","D","\n">>
    \o <<"@">> \o ReturnLabel(writer, ctx) \o <<"\n","D","=","A","\n","@","S","P","\n","A","=","M","\n","M","=","D","\n","@","S","P","\n","M","=","M","+","1","\n">>
    \o PushPointer(<<"L","C","L">>) \o PushPointer(<<"A","R","G">>)
    \o PushPointer(<<"T","H","I","S">>) \o PushPointer(<<"T","H","A","T">>)
    \o <<"@","S","P","\n","D","=","M","\n","@","L","C","L","\n","M","=","D","\n">>
    \o <<"@","R","1","3","\n","D","=","M","\n","@">> \o FormatD(n_args) \o <<"\n","D","=","D","-","A","\n","@","A","R","G","\n","M","=","D","\n">>
    \o <<"@">> \o function_name \o <<"\n","0",";","J","M","P","\n">>
    \o <<"(">> \o ReturnLabel(writer, ctx) \o <<")","\n">>)

\* translate_file's switch for the commands that carry a symbol
SymbolDispatch(writer, ctx, type, symbol, count) ==
  CASE type = C_LABEL -> code_writer_write_label(writer, ctx, symbol)
    [] type = C_GOTO -> code_writer_write_goto(writer, ctx, symbol)
    [] type = C_FUNCTION -> FunctionText(writer, ctx, symbol, count)
    [] type = C_CALL -> CallText(writer, ctx, symbol, count)

(***************************************************************************)
(* SpecLabel: translate_file over units of label, goto, function and call  *)
(* lines, one line per step, read by parser_advance and parser_arg1 and    *)
(* passed to the generator.                                                *)
(***************************************************************************)
MaxCommands == 4

LabelUnitLists == { <<<<"A",".","v","m">>, <<"B",".","v","m">>>> }

LabelLines ==
  { <<"f","u","n","c","t","i","o","n"," ","A","B","C","D","E","F","G","H","I","J"," ","0">>, <<"f","u","n","c","t","i","o","n"," ","A","B","C","D","E","F","G","H","I","K"," ","1">>,
    <<"l","a","b","e","l"," ","L">>, <<"g","o","t","o"," ","L">>, <<"c","a","l","l"," ","g"," ","2">> }

\* what may lie behind ParsedCommand.arg1 when it holds no terminator
LabelBehind == { <<>>, <<"J">> }

InitLabel ==
  /\ output = code_writer_init.output_file
  /\ input_file = code_writer_init.input_file
  /\ boolean_op_count = code_writer_init.boolean_op_count
  /\ status = CODE_WRITER_SUCC
  /\ ncalls = 0
  /\ units \in LabelUnitLists
  /\ unit = <<>>
  /\ emitted = <<>>
  /\ NoCpu
  /\ NoParser
  /\ NoSite
  /\ NoRun

\* the writer, the context and the log after the call for a line returned r
SymbolReturned(line, parser, symbol, r) ==
  /\ output' = r.writer.output_file
  /\ input_file' = r.writer.input_file
  /\ boolean_op_count' = r.writer.boolean_op_count
  /\ status' = r.status
  /\ context' = r.context
  /\ emitted' = Append(emitted,
       [unit |-> unit,
        call |-> [kind |-> parser_command_type(parser), arg1 |-> symbol,
                  arg2 |-> parser_arg2(parser)],
        status |-> r.status,
        count |-> context.calls,
        written |-> Tokens(line)[2],
        text |-> SubSeq(r.writer.output_file, Len(output) + 1,
                        Len(r.writer.output_file))])

SymbolCall(line, parser, symbol) ==
  SymbolReturned(line, parser, symbol,
    SymbolDispatch(Writer, context, parser_command_type(parser), symbol,
                   parser_arg2(parser)))

\* one pass of the loop of translate_file on a line
SymbolLine(line, a, behind) ==
  /\ a.ret
  /\ SymbolCall(line, a.parser,
       CStr(parser_arg1(a.parser, PARSED_COMMAND_LABEL_MAX_LENGTH + 1, behind)))

TranslateSymbolLine ==
  /\ unit # <<>>
  /\ ncalls < MaxCommands
  /\ \E line \in LabelLines, behind \in LabelBehind :
       SymbolLine(line, parser_advance(parser_init(line \o <<NL>>)), behind)
  /\ ncalls' = ncalls + 1
  /\ UNCHANGED <<units, unit>>
  /\ UNCHANGED <<env, fs, exit_code, reports, sink>>
  /\ UNCHANGED cpuVars
  /\ UNCHANGED parserVars
  /\ UNCHANGED site

NextLabel == BeginUnit \/ TranslateSymbolLine

SpecLabel == InitLabel /\ [][NextLabel]_vars

\* the name written on the most recent function line before call i
RECURSIVE SourceFunction(_)
SourceFunction(i) ==
  IF i = 0 THEN <<>>
  ELSE IF emitted[i].call.kind = C_FUNCTION THEN emitted[i].written
  ELSE SourceFunction(i - 1)

IsTarget(i) == emitted[i].call.kind \in { C_LABEL, C_GOTO }

\* where a text has a line that begins with the character c
LinesWith(text, c) ==
  { p \in DOMAIN text : text[p] = c /\ (p = 1 \/ text[p - 1] = NL) }

\* the first place at or after p where the text has the character c
FirstAfter(text, p, c) ==
  CHOOSE q \in p..Len(text) :
    text[q] = c /\ \A k \in p..(q - 1) : text[k] # c

\* the label defined by the line at p, the symbol addressed by the line at p
LabelAt(text, p) == SubSeq(text, p + 1, FirstAfter(text, p, ")") - 1)

AddressAt(text, p) == SubSeq(text, p + 1, FirstAfter(text, p, NL) - 1)

\* the n-th line of the text that begins with c
NthLineWith(text, c, n) ==
  CHOOSE p \in LinesWith(text, c) :
    Cardinality({ q \in LinesWith(text, c) : q < p }) = n - 1

\* the target symbol of a label or goto
TargetSymbol(i) ==
  CASE emitted[i].call.kind = C_LABEL ->
         LabelAt(emitted[i].text, NthLineWith(emitted[i].text, "(", 1))
    [] emitted[i].call.kind = C_GOTO ->
         AddressAt(emitted[i].text, NthLineWith(emitted[i].text, "@", 1))

\* how often the output defines a label
Definitions(sym) ==
  Cardinality({ p \in LinesWith(output, "(") : LabelAt(output, p) = sym })

\* C25: label and goto with the same label text in two different functions
\* of one unit are emitted as different symbols, and a goto in a function
\* addresses the symbol of the label with that text in that function.
C25_LabelsNamespacedByFunction ==
  \A i, j \in 1..Len(emitted) :
    (/\ IsTarget(i) /\ IsTarget(j)
     /\ emitted[i].unit = emitted[j].unit
     /\ emitted[i].written = emitted[j].written) =>
      IF SourceFunction(i) # SourceFunction(j)
      THEN TargetSymbol(i) # TargetSymbol(j)
      ELSE TargetSymbol(i) = TargetSymbol(j)

\* the return-address label a call defines
ReturnLabelOf(i) ==
  LabelAt(emitted[i].text, NthLineWith(emitted[i].text, "(", 1))

IsCall(i) == emitted[i].call.kind = C_CALL

\* C26: within one run any two calls define different return-address
\* labels; each call is made with a counter one above that of the call
\* before it, and calls with different counters define different labels.
C26_ReturnLabelsUnique ==
  /\ context.calls = Cardinality({ i \in 1..Len(emitted) : IsCall(i) })
  /\ \A i, j \in 1..Len(emitted) :
       (IsCall(i) /\ IsCall(j) /\ i < j) =>
         /\ emitted[i].count < emitted[j].count
         /\ ReturnLabelOf(i) # ReturnLabelOf(j)
  /\ \A i \in 1..Len(emitted) :
       IsCall(i) =>
         /\ Definitions(ReturnLabelOf(i)) = 1
         /\ AddressAt(emitted[i].text, NthLineWith(emitted[i].text, "@", 3))
              = ReturnLabelOf(i)

\* two calls from the same function of the same unit, then one from a unit
\* that begins later
C26_Witness ==
  /\ Len(emitted) = 4
  /\ emitted[1].call.kind = C_FUNCTION /\ emitted[1].written = <<"A","B","C","D","E","F","G","H","I","K">>
  /\ emitted[1].call.arg1 = <<"A","B","C","D","E","F","G","H","I">>
  /\ IsCall(2) /\ IsCall(3) /\ IsCall(4)
  /\ emitted[2].unit = <<"A",".","v","m">> /\ emitted[3].unit = <<"A",".","v","m">>
  /\ emitted[4].unit = <<"B",".","v","m">>
  /\ ReturnLabelOf(2) = <<"A",".","A","B","C","D","E","F","G","H","I","$","r","e","t",".","0">>
  /\ ReturnLabelOf(3) = <<"A",".","A","B","C","D","E","F","G","H","I","$","r","e","t",".","1">>
  /\ ReturnLabelOf(4) = <<"B",".","A","B","C","D","E","F","G","H","I","$","r","e","t",".","2">>

(***************************************************************************)
(* The order of the units in the output                                    *)
(***************************************************************************)
\* the characters of file names, in ascending order
NameOrder == <<".","0","1","2","3","4","5","6","7","8","9","A","B","C","D","E","F","G","H","I","J","K","L","M","N","O","P","Q","R","S","T","U","V","W","X","Y","Z","_","a","b","c","d","e","f","g","h","i","j","k","l","m","n","o","p","q","r","s","t","u","v","w","x","y","z">>

CharRank(c) == CHOOSE k \in DOMAIN NameOrder : NameOrder[k] = c

\* a comes before b in ascending file name order
RECURSIVE NameBefore(_, _)
NameBefore(a, b) ==
  IF b = <<>> THEN FALSE
  ELSE IF a = <<>> THEN TRUE
  ELSE IF Head(a) # Head(b) THEN CharRank(Head(a)) < CharRank(Head(b))
  ELSE NameBefore(Tail(a), Tail(b))

\* C27: in directory mode the units are translated in ascending file name
\* order: in the one output no command of a unit comes before a command of
\* a unit with a smaller name.
C27_UnitsInSortedOrder ==
  env.stat = "dir" =>
    \A i, j \in 1..Len(emitted) :
      i < j => ~NameBefore(emitted[j].unit, emitted[i].unit)

(***************************************************************************)
(* The stack discipline of one command's text                              *)
(***************************************************************************)
UnaryNames == { <<"n","e","g">>, <<"n","o","t">> }

\* by how much the command moves the stack pointer
SpChange(call) ==
  IF call.kind = C_PUSH THEN 1
  ELSE IF call.kind = C_POP THEN -1
  ELSE IF call.arg1 \in UnaryNames THEN 0
  ELSE -1

\* the stack slots from the new top to the old top
SlotsBetweenTops(m0, m1) ==
  { a \in DOMAIN m0 \cup DOMAIN m1 \cup { Sp(m0) } :
      \/ (Sp(m0) - 1 <= a /\ a <= Sp(m1) - 1)
      \/ (Sp(m1) - 1 <= a /\ a <= Sp(m0) - 1) }

\* the cells the command may write
Writable(call) ==
  { 0 } \cup SlotsBetweenTops(ram0, ram)
  \cup (IF call.kind = C_POP
        THEN ScratchCells \cup { SegmentCell(ram0, call.arg1, call.arg2) }
        ELSE {})

\* C28: the text of one translated command moves the stack pointer by +1
\* for push, -1 for pop, -1 for a binary operation, 0 for a unary one, and
\* writes no cell other than the stack pointer, the stack slots between the
\* old and the new top and, for pop, the addressed cell, R13 and R14.
C28_StackDiscipline ==
  (phase = "halt" /\ Len(emitted) = 1 /\ Succeeded(1)) =>
    /\ Sp(ram) = Sp(ram0) + SpChange(emitted[1].call)
    /\ Changed(ram0, ram) \subseteq Writable(emitted[1].call)

\* a subtraction: the result replaces the lower operand
C28_Witness ==
  /\ RanValid(<<ArithmeticCall(<<"s","u","b">>)>>)
  /\ Sp(ram) = Sp(ram0) - 1
  /\ Changed(ram0, ram) = { 0, Sp(ram0) - 2 }

(***************************************************************************)
(* The loop of translate_file: while (parser_has_more_lines(parser)) with  *)
(* one call of parser_advance in each pass.                                *)
(***************************************************************************)
\* the pass that takes the parser from p to q reads on in the file, by at
\* least one line of the line count, or leaves the parser at the end
LoopProgress(p, q) ==
  \/ ~parser_has_more_lines(q)
  \/ /\ q.pos > p.pos
     /\ parser_get_line_number(q) > parser_get_line_number(p)

\* C29: the loop of translate_file ends for every source unit: the place in
\* the file never passes its end, and each pass with parser_has_more_lines
\* true reads at least one line or leaves the parser at the end of the
\* input, so that the passes are at most the length of the file plus one.
C29_LoopTerminates ==
  /\ src_parser.pos <= Len(src_parser.file)
  /\ parser_has_more_lines(src_parser) =>
       LoopProgress(src_parser, parser_advance(src_parser).parser)

\* the end of a unit with a leading blank line, a malformed line and a
\* command after it
C29_Witness ==
  /\ src_parser.file = <<"\n","/","/"," ","x","\n","a","d","d","\n","\n","p","s","h"," ","c","o","n","s","t","a","n","t"," ","3","\n","s","u","b","\n">>
  /\ ~parser_has_more_lines(src_parser)
  /\ parser_get_line_number(src_parser) = 6
  /\ advanced = "false"

(***************************************************************************)
(* pointer and temp beyond their cells                                     *)
(***************************************************************************)
IsFixedCall(i) ==
  emitted[i].call.kind \in { C_PUSH, C_POP }
    /\ emitted[i].call.arg1 \in { <<"p","o","i","n","t","e","r">>, <<"t","e","m","p">> }

\* pointer with an index of 2 or more, temp with an index of 8 or more
IsBeyond(i) ==
  IsFixedCall(i) /\ emitted[i].call.arg2 \notin FixedIndexes(emitted[i].call.arg1)
    /\ emitted[i].call.arg2 >= 0

\* the symbols the text of call i addresses
Addressed(i) ==
  { AddressAt(emitted[i].text \o <<NL>>, p) : p \in LinesWith(emitted[i].text, "@") }

\* the registers of the segment of call i
FixedRegisters(i) ==
  { <<"R">> \o FormatD(FixedCell(emitted[i].call.arg1, k)) :
      k \in FixedIndexes(emitted[i].call.arg1) }

\* C30: push and pop on pointer with an index of 2 or more and on temp with
\* an index of 8 or more return CODE_WRITER_FAIL_WRITE and append nothing;
\* CODE_WRITER_INVALID_PUSH_POP_INDEX is returned for a negative index only;
\* the text of a call on pointer or temp addresses no register but R3, R4
\* for pointer, R5 to R12 for temp, besides SP, R13 and R14.
C30_IndexBeyondSegmentRefused ==
  \A i \in 1..Len(emitted) :
    /\ IsBeyond(i) =>
         /\ emitted[i].status = CODE_WRITER_FAIL_WRITE
         /\ emitted[i].text = <<>>
    /\ emitted[i].status = CODE_WRITER_INVALID_PUSH_POP_INDEX
         <=> (emitted[i].call.kind \in { C_PUSH, C_POP } /\ emitted[i].call.arg2 < 0)
    /\ IsFixedCall(i) =>
         Addressed(i) \subseteq { <<"S","P">>, <<"R","1","3">>, <<"R","1","4">> } \cup FixedRegisters(i)

\* pop temp 8 refused, nothing written
C30_Witness ==
  /\ Len(emitted) = 1
  /\ emitted[1].call = PushPopCall(C_POP, <<"t","e","m","p">>, 8)
  /\ emitted[1].status = CODE_WRITER_FAIL_WRITE
  /\ output = <<>>

=============================================================================
